---- MODULE Spec2Model ----
(***************************************************************************)
(* A model of the lime_lex regular-expression compiler:                    *)
(*   pattern --scan--> Tok1 --simpilfy--> Tok2 --parse--> RAST             *)
(*           --validate--> RAST --rast_to_nfa--> NFA                       *)
(* Every stage is a pure function of the previous stage's result; the      *)
(* state machine below runs the stages one after the other on a pattern    *)
(* drawn from a bounded set.                                               *)
(***************************************************************************)
EXTENDS Integers, Sequences, FiniteSets, TLC

VARIABLES pattern, stage, tok1, tok2, rast, nfa, err, overflow_checks, call

(* overflow_checks is the build's treatment of integer overflow: TRUE is   *)
(* the debug profile, where an overflowing `*` or `+` panics, FALSE the    *)
(* release profile, where it wraps.  call is the Error value a client      *)
(* holds and what its calls of message and of Display have done with it.   *)
vars == <<pattern, stage, tok1, tok2, rast, nfa, err, overflow_checks, call>>

----------------------------------------------------------------------------
(* Bytes.  A pattern is a sequence of byte values; the names below are the *)
(* byte literals the scanner matches on.                                   *)

BSlash == 92
Bar == 124
Star == 42
QMark == 63
PlusCh == 43
LPar == 40
RPar == 41
LCurly == 123
RCurly == 125
LBrack == 91
RBrack == 93
Caret == 94
Dash == 45
Dot == 46
Comma == 44
Digit0 == 48
Digit9 == 57
ChR == 114
ChN == 110
ChT == 116
CR == 13
LF == 10
TAB == 9
AsciiLimit == 128
WildLimit == 127
U8Max == 255

ChA == 97
ChB == 98
ChC == 99
NonAscii == AsciiLimit + 72

----------------------------------------------------------------------------
(* Vec<u8> used as a stack: scan reverses the pattern and pops from the    *)
(* end of the vector.                                                      *)

Rev(s) == [i \in 1 .. Len(s) |-> s[Len(s) - i + 1]]

Top(v) == v[Len(v)]
Pop(v) == SubSeq(v, 1, Len(v) - 1)
Push(v, x) == Append(v, x)

----------------------------------------------------------------------------
(* FirstRegexToken.  One record shape for every variant: t is the variant, *)
(* a and b its u8 payload (Character(a), Times(a), MinMax(a, b)), s the    *)
(* HashSet<u8> of Set and InverseSet.                                      *)

Tok(t, a, b, s) == [t |-> t, a |-> a, b |-> b, s |-> s]
Character(c) == Tok("Character", c, 0, {})
MinMax(min, max) == Tok("MinMax", min, max, {})
Times(n) == Tok("Times", n, 0, {})
SetTok(s) == Tok("Set", 0, 0, s)
InverseSet(s) == Tok("InverseSet", 0, 0, s)
Plain(t) == Tok(t, 0, 0, {})

(* Result<_, Error>: ok with a value and the remaining stack, or the       *)
(* message of the Error.                                                   *)
Ok(v, rest) == [ok |-> TRUE, v |-> v, rest |-> rest, msg |-> ""]
Err(m) == [ok |-> FALSE, v |-> 0, rest |-> <<>>, msg |-> m]

(* an escape that leaves every letter as it is *)
get_escape_char_verbatim(letter) == letter

get_escape_char(letter) ==
    IF letter = Digit0 THEN 0
    ELSE IF letter = ChR THEN CR
    ELSE IF letter = ChN THEN LF
    ELSE IF letter = ChT THEN TAB
    ELSE letter

(* A u64 as four 16-bit limbs, least significant first.                    *)
Limb == 256 * 256

U64Zero == <<0, 0, 0, 0>>

(* the same sum on an accumulator of 32 bits *)
u64_mul10_add_u32(number, digit) ==
    LET t1 == (number[1] * 10) + digit
        t2 == (number[2] * 10) + (t1 \div Limb) IN
    [v |-> <<t1 % Limb, t2 % Limb, 0, 0>>,
     overflow |-> (t2 \div Limb) > 0]

(* (number * 10) + digit on a u64: the wrapped value, and whether the      *)
(* exact value left the 64 bits.                                           *)
u64_mul10_add(number, digit) ==
    LET t1 == (number[1] * 10) + digit
        t2 == (number[2] * 10) + (t1 \div Limb)
        t3 == (number[3] * 10) + (t2 \div Limb)
        t4 == (number[4] * 10) + (t3 \div Limb) IN
    [v |-> <<t1 % Limb, t2 % Limb, t3 % Limb, t4 % Limb>>,
     overflow |-> (t4 \div Limb) > 0]

(* number > 255 *)
u64_gt_u8max(number) ==
    number[1] > U8Max \/ number[2] > 0 \/ number[3] > 0 \/ number[4] > 0

ArithmeticOverflow == "attempt to multiply with overflow"

(* The while-let loop of get_num: pops digits, pushes back the first byte  *)
(* that is no digit.  c & 0x0f of a digit is c mod 16.  An accumulator     *)
(* that leaves the u64 panics under overflow_checks and wraps without.     *)
RECURSIVE get_num_loop(_, _)
get_num_loop(regex, number) ==
    IF regex = <<>> THEN [number |-> number, rest |-> regex, panic |-> FALSE]
    ELSE LET c == Top(regex) IN
         IF c < Digit0 \/ c > Digit9
         THEN [number |-> number, rest |-> regex, panic |-> FALSE]
         ELSE LET next == u64_mul10_add(number, c % 16) IN
              IF next.overflow /\ overflow_checks
              THEN [number |-> number, rest |-> regex, panic |-> TRUE]
              ELSE get_num_loop(Pop(regex), next.v)

(* `number as u8` of a number that passed the check is its low byte *)
get_num_check(r) ==
    IF r.panic THEN Err(ArithmeticOverflow)
    ELSE IF u64_gt_u8max(r.number) THEN Err("Numbers in {} must be less than 256")
    ELSE Ok(r.number[1], r.rest)

get_num(regex) ==
    IF regex = <<>> THEN Err("Mismatched {")
    ELSE get_num_check(get_num_loop(regex, U64Zero))

(* scan_times is cut at its two get_num calls: scan_times_min is the body *)
(* after `let min = get_num(regex)?`, scan_times_max the body after        *)
(* `let max = get_num(regex)?`.                                            *)
scan_times_max(min, max) ==
    IF ~max.ok THEN max
    ELSE IF max.rest = <<>> THEN Err("Regex ends without closing {")
    ELSE IF Top(max.rest) = RCurly
         THEN Ok(MinMax(min.v, max.v), Pop(max.rest))
         ELSE Err("Mismatched {}")

scan_times_min(min) ==
    IF ~min.ok THEN min
    ELSE IF min.rest = <<>> THEN Err("Regex ends without closing {")
    ELSE IF Top(min.rest) = RCurly THEN Ok(Times(min.v), Pop(min.rest))
    ELSE IF Top(min.rest) # Comma THEN Err("Illegal character in brackets")
    ELSE scan_times_max(min, get_num(Pop(min.rest)))

scan_times(regex) == scan_times_min(get_num(regex))

(* get_set: the while-let loop over the byte stack, with the set built so  *)
(* far.  An escape pushes the escaped byte back onto the stack; the loop   *)
(* ends with Ok when the stack runs empty at the top of an iteration.      *)
(* the range loop writing `first..c` for `first..(c+1)` *)
insert_range_exclusive(set, first, c) == set \cup (first .. (c - 1))

(* `for i in first..(c+1) { set.insert(i); }` *)
insert_range(set, first, c) == set \cup (first .. c)

(* how one iteration of the loop ends: with a `return`, or with `continue` *)
(* or the end of the body and the stack and set it leaves behind           *)
Return(result) == [done |-> TRUE, result |-> result, regex |-> <<>>, set |-> {}]
Continue(regex, set) ==
    [done |-> FALSE, result |-> Err(""), regex |-> regex, set |-> set]

(* the body of `while let Some(c) = regex.pop()`, entered with a byte on   *)
(* the stack                                                               *)
get_set_turn(regex, set) ==
    LET c == Top(regex)
        r1 == Pop(regex) IN
    IF c = BSlash
    THEN IF r1 = <<>> THEN Return(Err("Cannot have \\ on end of regex"))
         ELSE Continue(Push(Pop(r1), get_escape_char(Top(r1))), set)
    ELSE IF c = RBrack THEN Return(Ok(set, r1))
    ELSE IF r1 = <<>> THEN Return(Err("Mismatched []"))
    ELSE LET c2 == Top(r1)
             r2 == Pop(r1) IN
         IF c2 = RBrack THEN Return(Ok(set \cup {c}, r2))
         ELSE IF c2 = Dash
         THEN IF r2 = <<>> THEN Return(Err("Mismatched []"))
              ELSE Continue(Pop(r2), insert_range(set, c, Top(r2)))
         ELSE Continue(Push(r2, c2), set \cup {c})

RECURSIVE get_set_loop(_, _)
get_set_next(t) == IF t.done THEN t.result ELSE get_set_loop(t.regex, t.set)

get_set_loop(regex, set) ==
    IF regex = <<>> THEN Ok(set, regex) ELSE get_set_next(get_set_turn(regex, set))

get_set(regex) == get_set_loop(regex, {})

(* scan_token: Ok(None) is [some |-> FALSE]; Ok(Some(t)) carries the token *)
(* and the stack left after it.                                            *)
None == [ok |-> TRUE, some |-> FALSE, v |-> Plain("None"), rest |-> <<>>, msg |-> ""]
Some(t, rest) == [ok |-> TRUE, some |-> TRUE, v |-> t, rest |-> rest, msg |-> ""]
Fail(m) == [ok |-> FALSE, some |-> FALSE, v |-> Plain("None"), rest |-> <<>>, msg |-> m]

(* Ok(Some(..)) around a callee's result, its Error passed on by `?` *)
TokenOf(q) == IF q.ok THEN Some(q.v, q.rest) ELSE Fail(q.msg)
InverseSetOf(set) == IF set.ok THEN Some(InverseSet(set.v), set.rest) ELSE Fail(set.msg)
SetOf(set) == IF set.ok THEN Some(SetTok(set.v), set.rest) ELSE Fail(set.msg)

scan_token(regex) ==
    IF regex = <<>> THEN None
    ELSE LET c == Top(regex)
             r1 == Pop(regex) IN
         IF c = BSlash
         THEN IF r1 = <<>> THEN Fail("Cannot have \\ on end of regex")
              ELSE Some(Character(get_escape_char(Top(r1))), Pop(r1))
         ELSE IF c = Bar THEN Some(Plain("Alternation"), r1)
         ELSE IF c = Star THEN Some(Plain("KleenClosure"), r1)
         ELSE IF c = QMark THEN Some(Plain("Question"), r1)
         ELSE IF c = PlusCh THEN Some(Plain("Plus"), r1)
         ELSE IF c = LPar THEN Some(Plain("LParen"), r1)
         ELSE IF c = RPar THEN Some(Plain("RParen"), r1)
         ELSE IF c = LCurly THEN TokenOf(scan_times(r1))
         ELSE IF c = LBrack
         THEN IF r1 = <<>> THEN Fail("Mismatched []")
              ELSE IF Top(r1) = Caret
                   THEN InverseSetOf(get_set(Pop(r1)))
                   ELSE SetOf(get_set(r1))
         ELSE IF c = Dot THEN Some(Plain("Wildcard"), r1)
         ELSE Some(Character(c), r1)

RECURSIVE scan_loop(_, _)
scan_loop_token(tokens, t) ==
    IF ~t.ok THEN Err(t.msg)
    ELSE IF ~t.some THEN Ok(tokens, <<>>)
    ELSE scan_loop(t.rest, Append(tokens, t.v))

scan_loop(regex, tokens) == scan_loop_token(tokens, scan_token(regex))

is_ascii(str) == \A i \in 1..Len(str) : str[i] < AsciiLimit

scan(str) ==
    IF ~is_ascii(str) THEN Err("This Regex Engine only supports ASCII")
    ELSE IF Len(str) = 0 THEN Err("Cannot have an empty regex")
    ELSE scan_loop(Rev(str), <<>>)

----------------------------------------------------------------------------
(* simpilfy.  Token (Tok2) reuses the record shape of FirstRegexToken and  *)
(* adds Concat.                                                            *)

(* the u8 values 0 .. n-1 in order, and the members of a set of u8 in order *)
Upto(n) == [i \in 1 .. n |-> i - 1]
Ascending(S) == LET member(x) == x \in S IN SelectSeq(Upto(U8Max + 1), member)

Rotate(s, k) ==
    IF s = <<>> THEN s
    ELSE LET n == k % Len(s) IN SubSeq(s, n + 1, Len(s)) \o SubSeq(s, 1, n)

(* `for byte in hs` over a HashSet<u8>: the iteration order is not fixed   *)
(* by the language.  order picks one of the orders the model considers:    *)
(* the members ascending, rotated by order places.                         *)
HashSetIter(hs, order) == Rotate(Ascending(hs), order)

(* for byte in bytes { push Character(byte); push Alternation } *)
PushAlternatives(tokens, bytes) ==
    tokens \o [i \in 1 .. 2 * Len(bytes) |->
                 IF i % 2 = 1 THEN Character(bytes[(i + 1) \div 2])
                 ELSE Plain("Alternation")]

(* the expansion without the pop of the last Alternation *)
ExpandClass_no_pop(tokens, bytes) ==
    Append(PushAlternatives(Append(tokens, Plain("LParen")), bytes), Plain("RParen"))

(* push LParen; for each byte push Character, Alternation; pop; push RParen *)
ExpandClass(tokens, bytes) ==
    Append(Pop(PushAlternatives(Append(tokens, Plain("LParen")), bytes)), Plain("RParen"))

(* an emptiness test that never finds the set empty *)
is_empty_never(hs) == FALSE

(* hs.is_empty() *)
is_empty(hs) == hs = {}

RECURSIVE simplify_pass(_, _, _)
simplify_pass(regex, tokens, order) ==
    IF regex = <<>> THEN Ok(tokens, <<>>)
    ELSE LET t == Top(regex)
             r1 == Pop(regex) IN
         IF t.t = "Set"
         THEN IF is_empty(t.s) THEN Err("Cannot have an empty set []")
              ELSE simplify_pass(r1, ExpandClass(tokens, HashSetIter(t.s, order)), order)
         ELSE IF t.t = "InverseSet"
         THEN LET new_set == {i \in 0 .. (WildLimit - 1) : i \notin t.s} IN
              IF is_empty(new_set) THEN Err("Cannot have an empty set []")
              ELSE simplify_pass(r1, ExpandClass(tokens, HashSetIter(new_set, order)), order)
         ELSE IF t.t = "Wildcard"
         THEN simplify_pass(r1, ExpandClass(tokens, Upto(WildLimit)), order)
         ELSE simplify_pass(r1, Append(tokens, t), order)

InsertAt(tokens, index, x) ==
    SubSeq(tokens, 1, index) \o <<x>> \o SubSeq(tokens, index + 1, Len(tokens))

(* first_is_normal without its LParen arm *)
first_is_normal_character_only(tokens, second, index) ==
    IF second.t = "Character"
    THEN InsertAt(tokens, index, Plain("Concat"))
    ELSE tokens

(* index is the 0-based Vec index, as in the source *)
first_is_normal(tokens, second, index) ==
    IF second.t \in {"Character", "LParen"}
    THEN InsertAt(tokens, index, Plain("Concat"))
    ELSE tokens

(* the first tokens of the loop's match with Concat counted among them *)
LeftAtom_with_concat ==
    {"Character", "MinMax", "Times", "KleenClosure", "Question", "Plus", "RParen",
     "Concat"}

LeftAtom == {"Character", "MinMax", "Times", "KleenClosure", "Question", "Plus", "RParen"}

(* One turn of `while index + 1 < tokens.len()`: the loop body when the   *)
(* condition holds, nothing once it fails.  st is <<tokens, index>>.       *)
concat_step(st) ==
    IF ~(st[2] + 1 < Len(st[1])) THEN st
    ELSE IF st[1][st[2] + 1].t \in LeftAtom
         THEN <<first_is_normal(st[1], st[1][st[2] + 2], st[2] + 1), st[2] + 1>>
         ELSE <<st[1], st[2] + 1>>

(* count turns of the loop, split in halves to keep the evaluation        *)
(* shallow; the test on st[2] (never negative) has st evaluated before the *)
(* turns that follow it.                                                   *)
RECURSIVE concat_turns(_, _)
concat_turns(st, count) ==
    IF st[2] < 0 \/ count <= 0 THEN st
    ELSE IF count = 1 THEN concat_step(st)
    ELSE concat_turns(concat_turns(st, count \div 2), count - (count \div 2))

(* The loop ends within 2 * len turns: a turn moves index up by one and    *)
(* adds at most one token, and no two turns in a row add one.              *)
concat_pass(tokens) == concat_turns(<<tokens, 0>>, 2 * Len(tokens))[1]

simpilfy_concat(a) == IF ~a.ok THEN a ELSE Ok(concat_pass(a.v), <<>>)

simpilfy(regex, order) == simpilfy_concat(simplify_pass(Rev(regex), <<>>, order))

----------------------------------------------------------------------------
(* parse.  RAST nodes are records: Atomic(c), Unary(child, op) with op a   *)
(* UnaryOperation in the token record shape, Binary(left, right, op) with  *)
(* op "Concat" or "Alternation".                                           *)

Atomic(c) == [k |-> "Atomic", c |-> c]
Unary(child, op) == [k |-> "Unary", child |-> child, op |-> op]
Binary(left, right, op) == [k |-> "Binary", left |-> left, right |-> right, op |-> op]

NoPrime == [some |-> FALSE, rast |-> Atomic(0), op |-> "None"]
SomePrime(r, op) == [some |-> TRUE, rast |-> r, op |-> op]

parse_unary_prime(regex) ==
    IF regex = <<>> THEN Ok(Plain("None"), regex)
    ELSE LET t == Top(regex) IN
         IF t.t \in {"KleenClosure", "Question", "Plus", "Times", "MinMax"}
         THEN Ok(t, Pop(regex))
         ELSE Ok(Plain("None"), regex)

(* Each function below is cut at its `?` operators: the operator named    *)
(* after a function takes the Result computed so far and is the rest of    *)
(* that function's body.                                                   *)
RECURSIVE parse_binary(_), parse_binary_prime(_), parse_unary(_), parse_group(_)

parse_regex(regex) == parse_binary(regex)

parse_binary_rest(unary, prime) ==
    IF ~prime.ok THEN prime
    ELSE IF prime.v.some
         THEN Ok(Binary(unary.v, prime.v.rast, prime.v.op), prime.rest)
         ELSE Ok(unary.v, prime.rest)

parse_binary_unary(unary) ==
    IF ~unary.ok THEN unary
    ELSE parse_binary_rest(unary, parse_binary_prime(unary.rest))

parse_binary(regex) == parse_binary_unary(parse_unary(regex))

(* the prime that nests its operands the other way round *)
parse_binary_prime_rest_swapped(token, unary, prime) ==
    IF ~prime.ok THEN prime
    ELSE IF prime.v.some
         THEN Ok(SomePrime(Binary(prime.v.rast, unary.v, prime.v.op), token), prime.rest)
         ELSE Ok(SomePrime(unary.v, token), prime.rest)

parse_binary_prime_rest(token, unary, prime) ==
    IF ~prime.ok THEN prime
    ELSE IF prime.v.some
         THEN Ok(SomePrime(Binary(unary.v, prime.v.rast, prime.v.op), token), prime.rest)
         ELSE Ok(SomePrime(unary.v, token), prime.rest)

parse_binary_prime_unary(token, unary) ==
    IF ~unary.ok THEN unary
    ELSE parse_binary_prime_rest(token, unary, parse_binary_prime(unary.rest))

parse_binary_prime(regex) ==
    IF regex = <<>> THEN Ok(NoPrime, regex)
    ELSE IF Top(regex).t \notin {"Concat", "Alternation"} THEN Ok(NoPrime, regex)
    ELSE parse_binary_prime_unary(Top(regex).t, parse_unary(Pop(regex)))

parse_unary_rest(group, opperation) ==
    IF opperation.v.t # "None"
    THEN Ok(Unary(group.v, opperation.v), opperation.rest)
    ELSE Ok(group.v, opperation.rest)

parse_unary_group(group) ==
    IF ~group.ok THEN group
    ELSE parse_unary_rest(group, parse_unary_prime(group.rest))

parse_unary(regex) == parse_unary_group(parse_group(regex))

(* parse_group taking the end of the stream for the closing `)` *)
parse_group_rest_unclosed(group) ==
    IF ~group.ok THEN group
    ELSE IF group.rest = <<>> THEN Ok(group.v, group.rest)
    ELSE IF Top(group.rest).t = "RParen" THEN Ok(group.v, Pop(group.rest))
    ELSE Err("Unexpected token, expected ')'")

parse_group_rest(group) ==
    IF ~group.ok THEN group
    ELSE IF group.rest = <<>> THEN Err("Reached end of regex while parsing")
    ELSE IF Top(group.rest).t = "RParen" THEN Ok(group.v, Pop(group.rest))
    ELSE Err("Unexpected token, expected ')'")

parse_group(regex) ==
    IF regex = <<>> THEN Err("Reached end of regex while parsing")
    ELSE IF Top(regex).t = "Character" THEN Ok(Atomic(Top(regex).a), Pop(regex))
    ELSE IF Top(regex).t = "LParen" THEN parse_group_rest(parse_regex(Pop(regex)))
    ELSE Err("Unexpected token, expected char or '('")

(* parse without the test for tokens left over *)
parse_rest_lenient(r) ==
    IF ~r.ok THEN r ELSE Ok(r.v, <<>>)

parse_rest(r) ==
    IF ~r.ok THEN r
    ELSE IF r.rest # <<>> THEN Err("Regex stoped parsing before the end")
    ELSE Ok(r.v, <<>>)

parse(regex) == parse_rest(parse_regex(Rev(regex)))

----------------------------------------------------------------------------
(* validate: a post-order walk of the RAST that returns the kind of the    *)
(* node it checked.                                                        *)

RECURSIVE validate(_)

(* validate comparing min and max with > for >= *)
validate_equal_bounds(r) ==
    IF r.k = "Atomic" THEN Ok("Atomic", <<>>)
    ELSE IF r.k = "Binary"
    THEN LET l == validate(r.left) IN
         IF ~l.ok THEN l
         ELSE LET rr == validate(r.right) IN
              IF ~rr.ok THEN rr ELSE Ok("Binary", <<>>)
    ELSE LET c == validate(r.child) IN
         IF ~c.ok THEN c
         ELSE IF r.op.t = "Times" /\ r.op.a = 0 THEN Err("Cannot repeat zero times")
         ELSE IF r.op.t = "MinMax" /\ r.op.a > r.op.b THEN Err("min must be less than max")
         ELSE IF c.v = "Unary" THEN Err("two unary in a row")
         ELSE Ok("Unary", <<>>)

validate(r) ==
    IF r.k = "Atomic" THEN Ok("Atomic", <<>>)
    ELSE IF r.k = "Binary"
    THEN LET l == validate(r.left) IN
         IF ~l.ok THEN l
         ELSE LET rr == validate(r.right) IN
              IF ~rr.ok THEN rr ELSE Ok("Binary", <<>>)
    ELSE LET c == validate(r.child) IN
         IF ~c.ok THEN c
         ELSE IF r.op.t = "Times" /\ r.op.a = 0 THEN Err("Cannot repeat zero times")
         ELSE IF r.op.t = "MinMax" /\ r.op.a >= r.op.b THEN Err("min must be less than max")
         ELSE IF c.v = "Unary" THEN Err("two unary in a row")
         ELSE Ok("Unary", <<>>)

----------------------------------------------------------------------------
(* nfa.  A Transition is a record: Epsilon(eps) or Character(c, to).  NFA  *)
(* indices are the 0-based Vec indices of the source; Node(nfa, i) reads   *)
(* nfa[i].  A node on which add_epsilon panicked is marked "Panic".        *)

Epsilon(transitions) == [t |-> "Epsilon", c |-> 0, to |-> 0, eps |-> transitions]
CharacterT(c, to) == [t |-> "Character", c |-> c, to |-> to, eps |-> <<>>]

Node(n, i) == n[i + 1]

(* add_epsilon putting the target at the front of the list *)
add_epsilon_front(node, to) ==
    IF node.t = "Epsilon" THEN [node EXCEPT !.eps = <<to>> \o @]
    ELSE [node EXCEPT !.t = "Panic"]

add_epsilon(node, to) ==
    IF node.t = "Epsilon" THEN [node EXCEPT !.eps = Append(@, to)]
    ELSE [node EXCEPT !.t = "Panic"]

(* nfa[from].add_epsilon(to); an index outside the Vec panics *)
AddEdge(n, from, to) ==
    IF from + 1 \in 1 .. Len(n) THEN [n EXCEPT ![from + 1] = add_epsilon(@, to)]
    ELSE Append(n, [Epsilon(<<>>) EXCEPT !.t = "Panic"])

new_epsilon(n, transitions) ==
    [nfa |-> Append(n, Epsilon(transitions)), idx |-> Len(n)]

(* the relocation that shifts the Epsilon targets only *)
Relocate_epsilon_only(node, by) ==
    IF node.t = "Epsilon"
    THEN [node EXCEPT !.eps = [i \in 1 .. Len(@) |-> @[i] + by]]
    ELSE node

Relocate(node, by) ==
    IF node.t = "Epsilon"
    THEN [node EXCEPT !.eps = [i \in 1 .. Len(@) |-> @[i] + by]]
    ELSE [node EXCEPT !.to = @ + by]

(* add_nfa taking the offset after the append instead of before it *)
add_nfa_late_offset(n, to_insert) ==
    [nfa |-> n \o [i \in 1 .. Len(to_insert) |->
                     Relocate(to_insert[i], Len(n) + Len(to_insert))],
     start |-> Len(n),
     end |-> Len(n) + Len(to_insert) - 1]

add_nfa(n, to_insert) ==
    [nfa |-> n \o [i \in 1 .. Len(to_insert) |-> Relocate(to_insert[i], Len(n))],
     start |-> Len(n),
     end |-> Len(n) + Len(to_insert) - 1]

(* one round of the copy loops of Times and MinMax: splice a copy of       *)
(* middle, link the end of the previous range to its start                 *)
ChainCopy(n, at, middle) ==
    LET next == add_nfa(n, middle) IN
    [nfa |-> AddEdge(next.nfa, at.end, next.start),
     at |-> [start |-> next.start, end |-> next.end]]

(* count rounds of the copy loop.  The rounds are run as two halves, one  *)
(* after the other, which is the loop's order.                             *)
RECURSIVE ChainCopies(_, _, _, _)
ChainCopiesFrom(c, middle, count) == ChainCopies(c.nfa, c.at, middle, count)

ChainCopies(n, at, middle, count) ==
    IF count <= 0 \/ at.end < 0 THEN [nfa |-> n, at |-> at]
    ELSE IF count = 1 THEN ChainCopy(n, at, middle)
    ELSE ChainCopiesFrom(ChainCopies(n, at, middle, count \div 2),
                         middle, count - (count \div 2))

(* one round of the min..max loop of MinMax: remembers at in hook_to_end,  *)
(* then copies                                                             *)
(* the optional loop remembering the copy it just made, not the one before *)
OptionalCopy_push_after(n, at, middle, hook_to_end) ==
    [nfa |-> ChainCopy(n, at, middle).nfa,
     at |-> ChainCopy(n, at, middle).at,
     hook_to_end |-> Append(hook_to_end, ChainCopy(n, at, middle).at)]

OptionalCopy(n, at, middle, hook_to_end) ==
    [nfa |-> ChainCopy(n, at, middle).nfa,
     at |-> ChainCopy(n, at, middle).at,
     hook_to_end |-> Append(hook_to_end, at)]

RECURSIVE OptionalCopies(_, _, _, _, _)
OptionalCopiesFrom(c, middle, count) ==
    OptionalCopies(c.nfa, c.at, middle, count, c.hook_to_end)

OptionalCopies(n, at, middle, count, hook_to_end) ==
    IF count <= 0 \/ at.end < 0
    THEN [nfa |-> n, at |-> at, hook_to_end |-> hook_to_end]
    ELSE IF count = 1 THEN OptionalCopy(n, at, middle, hook_to_end)
    ELSE OptionalCopiesFrom(OptionalCopies(n, at, middle, count \div 2, hook_to_end),
                            middle, count - (count \div 2))

(* `for range in hook_to_end { nfa[range.end].add_epsilon(end); }` *)
RECURSIVE HookToEnd(_, _, _)
HookToEnd(n, hook_to_end, end) ==
    IF hook_to_end = <<>> \/ n = <<>> THEN n
    ELSE IF Len(hook_to_end) = 1 THEN AddEdge(n, hook_to_end[1].end, end)
    ELSE HookToEnd(HookToEnd(n, SubSeq(hook_to_end, 1, Len(hook_to_end) \div 2), end),
                   SubSeq(hook_to_end, (Len(hook_to_end) \div 2) + 1, Len(hook_to_end)),
                   end)

construct_concat(l, r) ==
    LET left == add_nfa(<<>>, l)
        right == add_nfa(left.nfa, r) IN
    AddEdge(right.nfa, left.end, right.start)

(* the alternation without the edge from the right branch to the end *)
construct_alternation_left_only(l, r) ==
    LET start == new_epsilon(<<>>, <<>>)
        left == add_nfa(start.nfa, l)
        right == add_nfa(left.nfa, r)
        end == new_epsilon(right.nfa, <<>>) IN
    AddEdge(AddEdge(AddEdge(end.nfa,
        start.idx, left.start), start.idx, right.start),
        left.end, end.idx)

construct_alternation(l, r) ==
    LET start == new_epsilon(<<>>, <<>>)
        left == add_nfa(start.nfa, l)
        right == add_nfa(left.nfa, r)
        end == new_epsilon(right.nfa, <<>>) IN
    AddEdge(AddEdge(AddEdge(AddEdge(end.nfa,
        start.idx, left.start), start.idx, right.start),
        left.end, end.idx), right.end, end.idx)

construct_kleen_closure(m) ==
    LET start == new_epsilon(<<>>, <<>>)
        middle == add_nfa(start.nfa, m)
        end == new_epsilon(middle.nfa, <<start.idx>>) IN
    AddEdge(AddEdge(AddEdge(end.nfa,
        start.idx, middle.start), start.idx, end.idx), middle.end, end.idx)

(* Question built with the back-edge of KleenClosure *)
construct_question_looping(m) == construct_kleen_closure(m)

construct_question(m) ==
    LET start == new_epsilon(<<>>, <<>>)
        middle == add_nfa(start.nfa, m)
        end == new_epsilon(middle.nfa, <<>>) IN
    AddEdge(AddEdge(AddEdge(end.nfa,
        start.idx, middle.start), start.idx, end.idx), middle.end, end.idx)

(* Plus with the link between the first copy and the start node reversed *)
construct_plus_link_reversed(m) ==
    LET first == add_nfa(<<>>, m)
        start == new_epsilon(first.nfa, <<>>)
        linked == AddEdge(start.nfa, start.idx, first.end)
        middle == add_nfa(linked, m)
        end == new_epsilon(middle.nfa, <<start.idx>>) IN
    AddEdge(AddEdge(AddEdge(end.nfa,
        start.idx, middle.start), start.idx, end.idx), middle.end, end.idx)

construct_plus(m) ==
    LET first == add_nfa(<<>>, m)
        start == new_epsilon(first.nfa, <<>>)
        linked == AddEdge(start.nfa, first.end, start.idx)
        middle == add_nfa(linked, m)
        end == new_epsilon(middle.nfa, <<start.idx>>) IN
    AddEdge(AddEdge(AddEdge(end.nfa,
        start.idx, middle.start), start.idx, end.idx), middle.end, end.idx)

(* Times with the copy loop running `0..times` for `1..times` *)
construct_times_extra_copy(m, times) ==
    LET first == add_nfa(<<>>, m) IN
    ChainCopies(first.nfa, [start |-> first.start, end |-> first.end], m, times).nfa

construct_times(m, times) ==
    LET first == add_nfa(<<>>, m) IN
    ChainCopies(first.nfa, [start |-> first.start, end |-> first.end], m, times - 1).nfa

construct_min_max(m, min, max) ==
    LET entry == new_epsilon(<<>>, <<>>)
        mandatory == ChainCopies(entry.nfa, [start |-> 0, end |-> 0], m, min)
        optional == OptionalCopies(mandatory.nfa, mandatory.at, m, max - min, <<>>) IN
    HookToEnd(optional.nfa, optional.hook_to_end, optional.at.end)

construct_binary_op(l, r, op) ==
    IF op = "Concat" THEN construct_concat(l, r) ELSE construct_alternation(l, r)

construct_unary_op(middle, op) ==
    IF op.t = "KleenClosure" THEN construct_kleen_closure(middle)
    ELSE IF op.t = "Question" THEN construct_question(middle)
    ELSE IF op.t = "Plus" THEN construct_plus(middle)
    ELSE IF op.t = "Times" THEN construct_times(middle, op.a)
    ELSE construct_min_max(middle, op.a, op.b)

RECURSIVE rast_to_nfa(_)
rast_to_nfa(r) ==
    IF r.k = "Atomic" THEN <<CharacterT(r.c, 1), Epsilon(<<>>)>>
    ELSE IF r.k = "Binary"
    THEN construct_binary_op(rast_to_nfa(r.left), rast_to_nfa(r.right), r.op)
    ELSE construct_unary_op(rast_to_nfa(r.child), r.op)

Panicked(n) == \E i \in 1 .. Len(n) : n[i].t = "Panic"

(* get_nfa as one call: the stages in order, the first Error returned.     *)
(* order is the iteration order the HashSets of this call happen to have.  *)
get_nfa_rast(r) ==
    IF ~r.ok THEN r
    ELSE IF ~validate(r.v).ok THEN validate(r.v)
    ELSE Ok(rast_to_nfa(r.v), <<>>)

get_nfa_tokens(t) == IF ~t.ok THEN t ELSE get_nfa_rast(parse(t.v))

get_nfa_scanned(s, order) ==
    IF ~s.ok THEN s ELSE get_nfa_tokens(simpilfy(s.v, order))

get_nfa(str, order) == get_nfa_scanned(scan(str), order)

----------------------------------------------------------------------------
(* The single-pass scanner scan_regex of lime_lex/src/nfa.rs.  It walks    *)
(* the bytes by a 0-based index and emits RegexTokens, written here in the *)
(* record shape of the tokens above (Epsilon is Plain("Epsilon")).  Its    *)
(* arms for `[` and `.` (scan_set) are not modelled: ScanRegex is enabled  *)
(* on patterns without those two bytes.                                    *)

IndexOutOfBounds == "index out of bounds"

U8Modulus == U8Max + 1

nfa_get_escape_char(letter) ==
    IF letter = Digit0 THEN 0
    ELSE IF letter = ChR THEN CR
    ELSE IF letter = ChN THEN LF
    ELSE IF letter = ChT THEN TAB
    ELSE letter

IsDigit(c) == c >= Digit0 /\ c <= Digit9

(* `while regex[index] is a digit { index += 1 }`: the index of the first  *)
(* byte that is no digit, or -1 when the read runs past the slice.         *)
RECURSIVE digit_run(_, _)
digit_run(regex, index) ==
    IF index >= Len(regex) THEN -1
    ELSE IF IsDigit(regex[index + 1]) THEN digit_run(regex, index + 1)
    ELSE index

(* a product of two u8: the wrapped value, and whether it left the 8 bits *)
u8_mul(x, y) == [v |-> (x * y) % U8Modulus, overflow |-> (x * y) > U8Max]

(* `for digit in digits.iter().rev() { acc += (digit * mult) as u16;       *)
(* mult *= 10 }` with digit a u8 and mult a u8: count digits are left, the *)
(* last of them is taken next.  An overflowing product panics under        *)
(* overflow_checks and wraps without.                                      *)
RECURSIVE get_next_num_acc(_, _, _, _)
get_next_num_acc(digits, count, acc, mult) ==
    IF count = 0 THEN [acc |-> acc, panic |-> FALSE]
    ELSE IF overflow_checks /\ (u8_mul(digits[count], mult).overflow
                                \/ u8_mul(mult, 10).overflow)
    THEN [acc |-> acc, panic |-> TRUE]
    ELSE get_next_num_acc(digits, count - 1,
                          acc + u8_mul(digits[count], mult).v, u8_mul(mult, 10).v)

get_next_num_check(r, len) ==
    IF r.panic THEN Err(ArithmeticOverflow)
    ELSE IF r.acc > U8Max THEN Err("Cannoth have {} be greater than 255 sorry")
    ELSE Ok(r.acc, len)

(* digits holds regex[i] & 0x0f of the leading digits; Ok carries the      *)
(* number and, as rest, the count of digits.                               *)
get_next_num_digits(regex, len) ==
    IF len < 0 THEN Err(IndexOutOfBounds)
    ELSE IF len > 3 THEN Err("Cannoth have {} be greater than 255 sorry")
    ELSE get_next_num_check(
             get_next_num_acc([i \in 1 .. len |-> regex[i] % 16], len, 0, 1), len)

get_next_num(regex) ==
    IF regex = <<>> \/ ~IsDigit(regex[1])
    THEN Err("Bracket contains non number in illeagal spot")
    ELSE get_next_num_digits(regex, digit_run(regex, 0))

(* the index of the LParen that matches the RParen ending tokens, or -1 *)
RECURSIVE matching_paren(_, _, _)
matching_paren(tokens, index, depth) ==
    IF index <= 0 THEN -1
    ELSE LET d == IF tokens[index].t = "RParen" THEN depth + 1
                  ELSE IF tokens[index].t = "LParen" THEN depth - 1
                  ELSE depth IN
         IF d = 0 THEN index - 1 ELSE matching_paren(tokens, index - 1, d)

get_previous_group(tokens) ==
    IF tokens = <<>> THEN Err("Can't use + or ? operator at the begining of a regex")
    ELSE IF tokens[Len(tokens)].t = "Character" THEN Ok(<<tokens[Len(tokens)]>>, <<>>)
    ELSE IF tokens[Len(tokens)].t # "RParen" THEN Err("Cant use an operator on a non group")
    ELSE IF matching_paren(tokens, Len(tokens) - 1, 1) < 0
    THEN Err("+ or ? used on group with no matching parens")
    ELSE Ok(SubSeq(tokens, matching_paren(tokens, Len(tokens) - 1, 1) + 1, Len(tokens)), <<>>)

(* `while regex[index] != '}'`: the index of the first `}` from index on,  *)
(* or -1 when there is none.                                               *)
RECURSIVE find_close(_, _)
find_close(regex, index) ==
    IF regex[index + 1] = RCurly THEN index
    ELSE IF index + 1 >= Len(regex) THEN -1
    ELSE find_close(regex, index + 1)

(* group repeated: `for _ in 1..start { tokens.append(group) }` *)
RECURSIVE append_copies(_, _, _)
append_copies(tokens, group, count) ==
    IF count <= 0 \/ Len(tokens) < 0 THEN tokens
    ELSE IF count = 1 THEN tokens \o group
    ELSE append_copies(append_copies(tokens, group, count \div 2), group,
                       count - (count \div 2))

From(regex, at) == SubSeq(regex, at + 1, Len(regex))

(* The `{` arm, cut at its `?` operators.  Ok carries the tokens and, as   *)
(* rest, the index the arm leaves (one past the `}`).                      *)
scan_bracket_max(regex, tokens, start, at, end, next) ==
    IF ~end.ok THEN end
    ELSE IF regex[at + end.rest + 1] # RCurly THEN Err("Illegal patern in {}")
    ELSE Ok(Append(tokens, MinMax(start, end.v)), next)

scan_bracket_group(regex, tokens, start, at, group, next) ==
    IF ~group.ok THEN group
    ELSE IF regex[at + 1] = RCurly
    THEN IF start < 2 THEN Err("Variable in bracket makes no sense")
         ELSE Ok(append_copies(tokens, group.v, start - 1), next)
    ELSE IF regex[at + 1] = Comma
    THEN scan_bracket_max(regex, tokens, start, at + 1,
                          get_next_num(From(regex, at + 1)), next)
    ELSE Err("{} Pattern is not upheld")

scan_bracket_min(regex, tokens, at, min, next) ==
    IF ~min.ok THEN min
    ELSE scan_bracket_group(regex, tokens, min.v, at + min.rest,
                            get_previous_group(tokens), next)

scan_bracket(regex, index, tokens) ==
    IF find_close(regex, index) < 0 THEN Err("Mismatched {}")
    ELSE scan_bracket_min(regex, tokens, index + 1,
                          get_next_num(From(regex, index + 1)),
                          find_close(regex, index) + 1)

(* `?`: LParen before the previous group, then Alternation, Epsilon, RParen *)
scan_question(tokens, group) ==
    IF ~group.ok THEN group
    ELSE Ok(InsertAt(tokens, Len(tokens) - Len(group.v), Plain("LParen"))
            \o <<Plain("Alternation"), Plain("Epsilon"), Plain("RParen")>>, <<>>)

(* `+`: the previous group once more, then KleenClosure *)
scan_plus(tokens, group) ==
    IF ~group.ok THEN group
    ELSE Ok(tokens \o group.v \o <<Plain("KleenClosure")>>, <<>>)

RECURSIVE scan_regex_loop(_, _, _)
scan_regex_arm(regex, index, r) ==
    IF ~r.ok THEN r ELSE scan_regex_loop(regex, index + 1, r.v)

scan_regex_bracket(regex, r) ==
    IF ~r.ok THEN r ELSE scan_regex_loop(regex, r.rest + 1, r.v)

scan_regex_loop(regex, index, tokens) ==
    IF index >= Len(regex) THEN Ok(tokens, <<>>)
    ELSE LET c == regex[index + 1] IN
         IF c = BSlash
         THEN IF index + 1 >= Len(regex)
              THEN Err("'\\' can't be last character in regex")
              ELSE scan_regex_loop(regex, index + 2,
                       Append(tokens, Character(nfa_get_escape_char(regex[index + 2]))))
         ELSE IF c = Bar THEN scan_regex_loop(regex, index + 1, Append(tokens, Plain("Alternation")))
         ELSE IF c = Star THEN scan_regex_loop(regex, index + 1, Append(tokens, Plain("KleenClosure")))
         ELSE IF c = LPar THEN scan_regex_loop(regex, index + 1, Append(tokens, Plain("LParen")))
         ELSE IF c = RPar THEN scan_regex_loop(regex, index + 1, Append(tokens, Plain("RParen")))
         ELSE IF c = RBrack THEN Err("Mismatched []")
         ELSE IF c = QMark THEN scan_regex_arm(regex, index, scan_question(tokens, get_previous_group(tokens)))
         ELSE IF c = PlusCh THEN scan_regex_arm(regex, index, scan_plus(tokens, get_previous_group(tokens)))
         ELSE IF c = LCurly THEN scan_regex_bracket(regex, scan_bracket(regex, index, tokens))
         ELSE scan_regex_loop(regex, index + 1, Append(tokens, Character(c)))

scan_regex(regex) ==
    IF ~is_ascii(regex) THEN Err("This Regex Engine only supports ASCII")
    ELSE IF Len(regex) = 0 THEN Err("Cannot have an empty regex")
    ELSE scan_regex_loop(regex, 0, <<>>)

----------------------------------------------------------------------------
(* Error (lime_lex/src/lib.rs and lime_tree/src/lib.rs).  An Error value   *)
(* is a record of its fields, with an Option as a sequence of at most one  *)
(* element; lime_tree's Error has the message only.  With it the record    *)
(* keeps the client's view: state is "idle" before message() is called,    *)
(* "running" while calls of message() are active (frames of them),         *)
(* "returned" with the value in returned, "aborted" once the stack is      *)
(* used up; shown holds the pieces Display wrote.                          *)

NoCall == [crate |-> "None"]

ErrorValue(crate, message, code, line, range) ==
    [crate |-> crate, message |-> message, code |-> code, line |-> line,
     range |-> range, state |-> "idle", frames |-> 0, returned |-> <<>>, shown |-> <<>>]

(* lime_lex: Error::new, Error::new_line, Error::new_hl *)
new(message) == ErrorValue("lime_lex", message, <<>>, 0, <<>>)
new_line(message, code, line) == ErrorValue("lime_lex", message, <<code>>, line, <<>>)
new_hl(message, code, line, start, end) ==
    ErrorValue("lime_lex", message, <<code>>, line, <<<<start, end>>>>)

(* lime_tree: Error::new *)
tree_new(message) == ErrorValue("lime_tree", message, <<>>, 0, <<>>)

(* what a call of message() does on entry: lime_lex's body is the call     *)
(* self.message(), one more frame; lime_tree's body returns &self.message. *)
message(error) ==
    IF error.crate = "lime_lex"
    THEN [error EXCEPT !.state = "running", !.frames = @ + 1]
    ELSE [error EXCEPT !.state = "returned", !.returned = <<error.message>>]

(* Display::fmt: the pieces written *)
fmt(error) ==
    IF error.crate = "lime_lex" THEN <<error.message>>
    ELSE <<"lime_tree/", error.message>>

----------------------------------------------------------------------------
(* The compile pipeline (get_nfa): scan, simpilfy, parse, validate,        *)
(* rast_to_nfa, each stage run on the result of the one before; the first  *)
(* Error ends the compile.                                                 *)

NoRast == [k |-> "None"]

(* Bounds of the model. *)
MaxLen == 4
MaxElems == 3
MaxSpan == 3
MaxQuant == 3
MaxCount == 2
MaxTokens == 24
MaxStr == 3

Seqs(A, n) == UNION {[1 .. k -> A] : k \in 0 .. n}

RECURSIVE Flatten(_)
Flatten(ss) == IF ss = <<>> THEN <<>> ELSE Head(ss) \o Flatten(Tail(ss))

(* Patterns of up to MaxLen bytes over the bytes the scanner tells apart,  *)
(* and the patterns the specification lists as rejected.                   *)
ShortAlphabet ==
    {ChA, ChB, Bar, Star, PlusCh, LPar, RPar, BSlash, RBrack, NonAscii}

ShortPatterns == Seqs(ShortAlphabet, MaxLen)

RejectedPatterns ==
    { <<>>, <<RBrack>>, <<LBrack>>, <<ChA, LBrack, RBrack, ChB>>,
      <<ChA, LCurly, Digit0, RCurly>>,
      <<ChA, LCurly, Digit0 + 2, Comma, Digit0 + 1, RCurly>>,
      <<LPar, ChA, Star, RPar, PlusCh>>, <<ChA, BSlash>>, <<NonAscii>> }

(* Patterns with a wildcard. *)
WildcardPatterns == {<<Dot>>, <<ChA, Dot>>, <<Dot, Star>>, <<BSlash, Dot>>}

(* Classes: `[` or `[^`, up to MaxElems class elements (a byte or an       *)
(* escape), closed by `]` or left open.                                    *)
ClassElems ==
    { <<ChA>>, <<ChC>>, <<Dash>>, <<Caret>>, <<BSlash>>,
      <<BSlash, Digit0>>, <<BSlash, ChT>>, <<BSlash, RBrack>>, <<BSlash, BSlash>> }

ClassPatterns ==
    { <<LBrack>> \o Flatten(body) \o close :
        body \in Seqs(ClassElems, MaxElems), close \in {<<>>, <<RBrack>>} }

(* Ranges `[a-b]` for every ASCII byte a and the bytes b up to MaxSpan     *)
(* above it.                                                               *)
RangePatterns ==
    { <<LBrack, a, Dash, a + d, RBrack>> :
        a \in 0 .. (AsciiLimit - 1), d \in 0 .. MaxSpan }

(* Quantifiers: `a{`, up to MaxQuant bytes of digits and commas, closed by *)
(* `}` or left open.                                                       *)
QuantBytes == {Digit0, Digit0 + 1, Digit0 + 3, Comma}

QuantPatterns ==
    { <<ChA, LCurly>> \o body \o close :
        body \in Seqs(QuantBytes, MaxQuant), close \in {<<>>, <<RCurly>>} }

(* Number literals `a{d..d}` of up to MaxDigits digits: a prefix of 2^64,  *)
(* of a run of zeros or of 255000.., and one more digit.                   *)
MaxDigits == 20

TwoTo64 == <<1, 8, 4, 4, 6, 7, 4, 4, 0, 7, 3, 7, 0, 9, 5, 5, 1, 6, 1, 6, 0>>

NumStems ==
    { TwoTo64,
      [i \in 1 .. Len(TwoTo64) |-> 0],
      [i \in 1 .. Len(TwoTo64) |-> IF i = 1 THEN 2 ELSE IF i <= 3 THEN 5 ELSE 0] }

DigitStrings ==
    { [i \in 1 .. k |-> Digit0 + stem[i]] \o <<Digit0 + d>> :
        stem \in NumStems, k \in 0 .. (MaxDigits - 1), d \in 0 .. 9 }

NumPatterns == { <<ChA, LCurly>> \o ds \o <<RCurly>> : ds \in DigitStrings }

(* Patterns that break off: the empty pattern, patterns with a byte        *)
(* outside ASCII, patterns and classes of up to MaxStem elements that end  *)
(* in a `\`, and quantifiers left open (the literal 2^64 among them);      *)
(* with them, the same stems not broken off.                               *)
MaxStem == 2

StemElems == {<<ChA>>, <<BSlash, BSlash>>, <<BSlash, ChT>>, <<Star>>, <<ChA, Dash>>}

Stems == {Flatten(es) : es \in Seqs(StemElems, MaxStem)}

BrokenPatterns ==
    {<<>>}
    \cup {stem \o <<NonAscii>> \o rest : stem \in Stems, rest \in {<<>>, <<ChA>>}}
    \cup {open \o stem \o <<BSlash>> :
            open \in {<<>>, <<LBrack>>, <<LBrack, Caret>>}, stem \in Stems}
    \cup {<<ChA, LCurly>> \o body : body \in Seqs(QuantBytes, MaxQuant)}
    \cup {<<ChA, LCurly>> \o [i \in 1 .. k |-> Digit0 + TwoTo64[i]] :
            k \in (MaxDigits - 1) .. MaxDigits}

WholePatterns ==
    {open[1] \o stem \o open[2] :
        open \in {<<<<>>, <<>>>>, <<<<LBrack>>, <<RBrack>>>>}, stem \in Stems \ {<<>>}}

(* Patterns that use a class, and the same patterns with a group or a byte *)
(* in its place.                                                           *)
ClassUses ==
    { <<LBrack, ChA, ChB, ChC, RBrack>>, <<LBrack, ChA, ChB, RBrack>>,
      <<LBrack, ChA, Dash, ChC, RBrack>>, <<LBrack, ChB, RBrack>>,
      <<LBrack, Caret, BSlash, Digit0, Dash, LCurly, RBrack>> }

ClassFree == {<<ChA>>, <<LPar, ChA, Bar, ChB, RPar>>}

ClassBefore == {<<>>, <<ChA>>, <<ChA, Bar>>}

ClassAfter ==
    { <<>>, <<Star>>, <<PlusCh>>, <<QMark>>, <<ChC>>, <<Bar, ChC>>,
      <<LCurly, Digit0 + 2, RCurly>>, <<LCurly, Digit0 + 1, Comma, Digit0 + 2, RCurly>>,
      <<LBrack, ChB, ChC, RBrack>> }

ClassUsePatterns ==
    { pre \o mid \o post :
        pre \in ClassBefore, mid \in ClassUses \cup ClassFree, post \in ClassAfter }

(* Patterns for scan_regex: `a{n}` and `a{1,n}` for the numbers n of up to *)
(* MaxLegacyDigits digits, the same left open, and a few patterns with the *)
(* other operators.                                                        *)
MaxLegacyDigits == 3

LegacyDigits == {Digit0, Digit0 + 1, Digit0 + 2, Digit0 + 3, Digit9}

LegacyNums == Seqs(LegacyDigits, MaxLegacyDigits) \ {<<>>}

LegacyBodies ==
    LegacyNums \cup {<<Digit0 + 1, Comma>> \o n : n \in LegacyNums} \cup {<<>>, <<Comma>>}

LegacyPatterns ==
    {<<ChA, LCurly>> \o body \o close : body \in LegacyBodies, close \in {<<>>, <<RCurly>>}}
    \cup { <<LCurly, Digit0 + 2, RCurly>>, <<ChA, QMark>>, <<LPar, ChA, RPar, PlusCh>>,
           <<LPar, ChA, Bar, ChB, RPar, LCurly, Digit0 + 2, RCurly, ChB, Star>>,
           <<BSlash, LCurly, ChA>>, <<ChA, BSlash>>, <<RBrack>>, <<>> }

(* Error values: the messages of the scanner, built by each constructor.   *)
MaxFrames == 3
MaxLine == 1

Messages ==
    { "This Regex Engine only supports ASCII", "Cannot have an empty regex",
      "Cannot have \\ on end of regex", "Mismatched []", "Mismatched {}",
      "Numbers in {} must be less than 256", "Cannot have an empty set []", "" }

Codes == {"a{", "[a"}

Errors ==
    {new(m) : m \in Messages}
    \cup {new_line(m, c, l) : m \in Messages, c \in Codes, l \in 0 .. MaxLine}
    \cup {new_hl(m, c, l, s, s + 1) : m \in Messages, c \in Codes, l \in 0 .. MaxLine,
                                      s \in 0 .. 1}
    \cup {tree_new(m) : m \in Messages}

(* The strings of the monkey tests are shorter than MonkeyLimit bytes.  The *)
(* patterns checked for panics are the families above, which hold the long *)
(* number literals, the ranges up to the last ASCII byte, the open and     *)
(* closed classes and quantifiers, and the patterns of the regex trees.    *)
MonkeyLimit == 16

(* Patterns without classes and quantifiers: up to MaxPlain elements, each *)
(* an escape pair, an operator byte or another byte; and the pattern of    *)
(* the scanner's test basic.                                               *)
MaxPlain == 2

PlainElems ==
    { <<BSlash, Digit0>>, <<BSlash, ChR>>, <<BSlash, ChN>>, <<BSlash, ChT>>,
      <<BSlash, ChA>>, <<BSlash, BSlash>>, <<BSlash, Star>>, <<BSlash, LBrack>>,
      <<Bar>>, <<Star>>, <<QMark>>, <<PlusCh>>, <<LPar>>, <<RPar>>, <<Dot>>,
      <<ChA>>, <<RBrack>>, <<RCurly>>, <<Dash>> }

TestBasic == <<BSlash, Bar, Bar, Star, QMark, PlusCh, LPar, RPar, Dot, ChA>>

PlainPatterns ==
    {Flatten(es) : es \in Seqs(PlainElems, MaxPlain) \ {<<>>}} \cup {TestBasic}

(* FirstRegexToken slices handed to simpilfy: up to MaxFirst tokens, one   *)
(* of each kind, with classes that are empty, small, nearly everything and *)
(* everything; and the slices of the tests basic, swaping and concat.      *)
MaxFirst == 2

FirstAlphabet ==
    { Character(ChA), MinMax(0, 1), Times(1), Plain("Alternation"),
      Plain("KleenClosure"), Plain("Question"), Plain("Plus"),
      Plain("LParen"), Plain("RParen"), Plain("Wildcard"),
      SetTok({ChA, ChB}), SetTok({}), InverseSet({}),
      InverseSet(0 .. (WildLimit - 1)), InverseSet(0 .. (WildLimit - 2)) }

TestSlices ==
    { <<Character(ChA), Character(ChA)>>,
      <<SetTok({ChA, ChB, ChC})>>,
      <<InverseSet({ChA, ChB, ChC})>>,
      <<Character(ChA), Plain("KleenClosure"), Character(ChA)>>,
      <<Character(ChA), Plain("KleenClosure"), Plain("LParen"), Character(ChA),
        Plain("RParen")>> }

FirstSeqs == (Seqs(FirstAlphabet, MaxFirst) \ {<<>>}) \cup TestSlices

(* Token sequences handed to parse directly: up to MaxToks tokens.        *)
MaxToks == 5

TokenAlphabet ==
    { Character(ChA), Plain("Concat"), Plain("Alternation"), Plain("KleenClosure"),
      Plain("Plus"), Plain("LParen"), Plain("RParen") }

TokenSeqs == Seqs(TokenAlphabet, MaxToks)

(* Token sequences of up to MaxOperands operands joined by Concat and      *)
(* Alternation tokens in every mix.                                        *)
MaxOperands == 4

OperandTokens ==
    { <<Character(ChA)>>, <<Character(ChB)>>,
      <<Character(ChA), Plain("KleenClosure")>> }

JoinTokens == {<<Plain("Concat")>>, <<Plain("Alternation")>>}

RECURSIVE Joined(_)
Joined(count) ==
    IF count <= 1 THEN OperandTokens
    ELSE {ts \o op \o x : ts \in Joined(count - 1), op \in JoinTokens, x \in OperandTokens}

JoinedSeqs == UNION {Joined(count) : count \in 1 .. MaxOperands}

(* Patterns written out from regex trees over the atoms a and b: every     *)
(* operator over atoms, over those, and a unary operator over a            *)
(* concatenation or alternation that ends in a nested operator.            *)
Atoms == {Atomic(ChA), Atomic(ChB)}

UnaryOps ==
    {Plain("KleenClosure"), Plain("Question"), Plain("Plus")}
      \cup {Times(n) : n \in 0 .. MaxCount}
      \cup {MinMax(m, n) : m \in 0 .. MaxCount, n \in 0 .. MaxCount}

BinaryOps == {"Concat", "Alternation"}

UnaryOver(S) == {Unary(x, op) : x \in S, op \in UnaryOps}
BinaryOver(L, R) == {Binary(x, y, op) : x \in L, y \in R, op \in BinaryOps}

Trees1 == Atoms \cup UnaryOver(Atoms) \cup BinaryOver(Atoms, Atoms)
Trees2 == Trees1 \cup UnaryOver(Trees1) \cup BinaryOver(Trees1, Atoms)
            \cup BinaryOver(Atoms, Trees1)
Trees3 == Trees2 \cup UnaryOver(BinaryOver(Atoms, Trees1))

RECURSIVE Decimal(_)
Decimal(n) == IF n < 10 THEN <<Digit0 + n>>
              ELSE Decimal(n \div 10) \o <<Digit0 + (n % 10)>>

OpBytes(op) ==
    IF op.t = "KleenClosure" THEN <<Star>>
    ELSE IF op.t = "Question" THEN <<QMark>>
    ELSE IF op.t = "Plus" THEN <<PlusCh>>
    ELSE IF op.t = "Times" THEN <<LCurly>> \o Decimal(op.a) \o <<RCurly>>
    ELSE <<LCurly>> \o Decimal(op.a) \o <<Comma>> \o Decimal(op.b) \o <<RCurly>>

RECURSIVE Render(_)
Grouped(r) == IF r.k = "Atomic" THEN <<r.c>> ELSE <<LPar>> \o Render(r) \o <<RPar>>
Render(r) ==
    IF r.k = "Atomic" THEN <<r.c>>
    ELSE IF r.k = "Unary" THEN Grouped(r.child) \o OpBytes(r.op)
    ELSE IF r.op = "Concat" THEN Grouped(r.left) \o Grouped(r.right)
    ELSE Grouped(r.left) \o <<Bar>> \o Grouped(r.right)

(* `a{n}` for every count a u8 holds, and the first count above.          *)
TimesPatterns ==
    { <<ChA, LCurly>> \o Decimal(n) \o <<RCurly>> : n \in 0 .. (U8Max + 1) }

(* `X{m,M}` for a few bodies X and every m, M up to MaxMinMax.              *)
MaxMinMax == 4

MinMaxBodies ==
    { Atomic(ChA), Binary(Atomic(ChA), Atomic(ChB), "Alternation"),
      Binary(Atomic(ChA), Atomic(ChB), "Concat"),
      Binary(Atomic(ChA), Unary(Atomic(ChB), Plain("KleenClosure")), "Concat") }

MinMaxPatterns ==
    { Render(Unary(x, MinMax(m, n))) :
        x \in MinMaxBodies, m \in 0 .. MaxMinMax, n \in 0 .. MaxMinMax }

TreePatterns == {Render(r) : r \in Trees3}

Start(P) ==
    /\ pattern \in P
    /\ stage = "start"
    /\ tok1 = <<>>
    /\ tok2 = <<>>
    /\ rast = NoRast
    /\ nfa = <<>>
    /\ err = ""
    /\ overflow_checks \in BOOLEAN
    /\ call = NoCall

Init == Start(ShortPatterns \cup RejectedPatterns \cup WildcardPatterns)
InitClass == Start(ClassPatterns)
InitRange == Start(RangePatterns)
InitQuant == Start(QuantPatterns)
InitTree == Start(TreePatterns)
InitNum == Start(NumPatterns)
InitTimes == Start(TimesPatterns)
InitMinMax == Start(MinMaxPatterns)
InitPlain == Start(PlainPatterns)
InitBroken == Start(BrokenPatterns \cup WholePatterns)
InitClassUse == Start(ClassUsePatterns)
InitLegacy == Start(LegacyPatterns)
InitLoops ==
    Start(ClassUsePatterns \cup QuantPatterns \cup PlainPatterns
          \cup {Render(r) : r \in Trees2})
InitMonkey ==
    Start(NumPatterns \cup QuantPatterns \cup ClassPatterns \cup RangePatterns
          \cup TreePatterns \cup PlainPatterns \cup BrokenPatterns)

(* parse called on a token sequence of the caller's *)
InitParse ==
    /\ pattern = <<>>
    /\ stage = "simplified"
    /\ tok1 = <<>>
    /\ tok2 \in TokenSeqs
    /\ rast = NoRast
    /\ nfa = <<>>
    /\ err = ""
    /\ overflow_checks \in BOOLEAN
    /\ call = NoCall

(* simpilfy called on a FirstRegexToken slice of the caller's *)
InitSimplify ==
    /\ pattern = <<>>
    /\ stage = "scanned"
    /\ tok1 \in FirstSeqs
    /\ tok2 = <<>>
    /\ rast = NoRast
    /\ nfa = <<>>
    /\ err = ""
    /\ overflow_checks \in BOOLEAN
    /\ call = NoCall

(* parse called on operands joined by binary operators *)
InitFold ==
    /\ pattern = <<>>
    /\ stage = "simplified"
    /\ tok1 = <<>>
    /\ tok2 \in JoinedSeqs
    /\ rast = NoRast
    /\ nfa = <<>>
    /\ err = ""
    /\ overflow_checks \in BOOLEAN
    /\ call = NoCall

MaxOrder == 1

Scan ==
    /\ stage = "start"
    /\ LET r == scan(pattern) IN
       IF r.ok
       THEN /\ stage' = "scanned"
            /\ tok1' = r.v
            /\ err' = err
       ELSE /\ stage' = IF r.msg = ArithmeticOverflow THEN "panic" ELSE "error"
            /\ tok1' = tok1
            /\ err' = r.msg
    /\ UNCHANGED <<pattern, tok2, rast, nfa, overflow_checks, call>>

Simplify ==
    /\ stage = "scanned"
    /\ \E order \in 0 .. MaxOrder :
         LET r == simpilfy(tok1, order) IN
         IF r.ok
         THEN /\ stage' = "simplified"
              /\ tok2' = r.v
              /\ err' = err
         ELSE /\ stage' = "error"
              /\ tok2' = tok2
              /\ err' = r.msg
    /\ UNCHANGED <<pattern, tok1, rast, nfa, overflow_checks, call>>

Parse ==
    /\ stage = "simplified"
    /\ Len(tok2) <= MaxTokens
    /\ LET r == parse(tok2) IN
       IF r.ok
       THEN /\ stage' = "parsed"
            /\ rast' = r.v
            /\ err' = err
       ELSE /\ stage' = "error"
            /\ rast' = rast
            /\ err' = r.msg
    /\ UNCHANGED <<pattern, tok1, tok2, nfa, overflow_checks, call>>

Validate ==
    /\ stage = "parsed"
    /\ LET r == validate(rast) IN
       IF r.ok
       THEN /\ stage' = "validated"
            /\ err' = err
       ELSE /\ stage' = "error"
            /\ err' = r.msg
    /\ UNCHANGED <<pattern, tok1, tok2, rast, nfa, overflow_checks, call>>

Lower ==
    /\ stage = "validated"
    /\ LET n == rast_to_nfa(rast) IN
       /\ nfa' = n
       /\ stage' = IF Panicked(n) THEN "panic" ELSE "lowered"
    /\ UNCHANGED <<pattern, tok1, tok2, rast, err, overflow_checks, call>>

Next == Scan \/ Simplify \/ Parse \/ Validate \/ Lower

(* scan_regex called on the pattern; its tokens are kept in tok1 *)
ScanRegex ==
    /\ stage = "start"
    /\ \A i \in 1 .. Len(pattern) : pattern[i] \notin {LBrack, Dot}
    /\ LET r == scan_regex(pattern) IN
       IF r.ok
       THEN /\ stage' = "tokens"
            /\ tok1' = r.v
            /\ err' = err
       ELSE /\ stage' = IF r.msg \in {ArithmeticOverflow, IndexOutOfBounds}
                        THEN "panic" ELSE "error"
            /\ tok1' = tok1
            /\ err' = r.msg
    /\ UNCHANGED <<pattern, tok2, rast, nfa, overflow_checks, call>>

NextLegacy == ScanRegex

(* a client holding an Error value *)
InitError ==
    /\ pattern = <<>>
    /\ stage = "error"
    /\ tok1 = <<>>
    /\ tok2 = <<>>
    /\ rast = NoRast
    /\ nfa = <<>>
    /\ err \in Messages
    /\ overflow_checks \in BOOLEAN
    /\ call \in {e \in Errors : e.message = err}

(* the client calls message(), or a running message() reaches the call in  *)
(* its body; MaxFrames frames stand for the stack the thread has.          *)
Message ==
    /\ call.state \in {"idle", "running"}
    /\ call.frames < MaxFrames
    /\ call' = message(call)
    /\ UNCHANGED <<pattern, stage, tok1, tok2, rast, nfa, err, overflow_checks>>

(* one frame more than the stack holds *)
StackOverflow ==
    /\ call.state = "running"
    /\ call.frames = MaxFrames
    /\ call' = [call EXCEPT !.state = "aborted"]
    /\ stage' = "panic"
    /\ UNCHANGED <<pattern, tok1, tok2, rast, nfa, err, overflow_checks>>

(* the client prints the Error *)
Display ==
    /\ call.state \in {"idle", "returned"}
    /\ call.shown = <<>>
    /\ call' = [call EXCEPT !.shown = fmt(call)]
    /\ UNCHANGED <<pattern, stage, tok1, tok2, rast, nfa, err, overflow_checks>>

NextError == Message \/ StackOverflow \/ Display

Spec == Init /\ [][Next]_vars
SpecClass == InitClass /\ [][Next]_vars
SpecRange == InitRange /\ [][Next]_vars
SpecQuant == InitQuant /\ [][Next]_vars
SpecTree == InitTree /\ [][Next]_vars
SpecNum == InitNum /\ [][Next]_vars
SpecTimes == InitTimes /\ [][Next]_vars
SpecMinMax == InitMinMax /\ [][Next]_vars
SpecPlain == InitPlain /\ [][Next]_vars
SpecBroken == InitBroken /\ [][Next]_vars
SpecClassUse == InitClassUse /\ [][Next]_vars
SpecLegacy == InitLegacy /\ [][NextLegacy]_vars
SpecLoops == InitLoops /\ [][Next]_vars
SpecError == InitError /\ [][NextError]_vars
SpecMonkey == InitMonkey /\ [][Next]_vars

NextSimplify == Simplify \/ Parse \/ Validate \/ Lower
SpecSimplify == InitSimplify /\ [][NextSimplify]_vars

NextParse == Parse \/ Validate \/ Lower
SpecParse == InitParse /\ [][NextParse]_vars
SpecFold == InitFold /\ [][NextParse]_vars

----------------------------------------------------------------------------
(* What an NFA accepts: a run starts at index 0, follows Epsilon targets   *)
(* freely and a Character(c, to) by reading the byte c, and accepts when   *)
(* it can stand on the last index once the input is read.                  *)

InRange(n, i) == i >= 0 /\ i < Len(n)

Targets(n, i) ==
    IF Node(n, i).t = "Epsilon"
    THEN {Node(n, i).eps[j] : j \in 1 .. Len(Node(n, i).eps)}
    ELSE {}

RECURSIVE EpsClosure(_, _)
EpsClosure(n, S) ==
    LET T == S \cup {i \in UNION {Targets(n, j) : j \in S} : InRange(n, i)} IN
    IF T = S THEN S ELSE EpsClosure(n, T)

Move(n, S, c) ==
    {i \in {Node(n, j).to : j \in {k \in S : Node(n, k).t = "Character"
                                              /\ Node(n, k).c = c}} :
        InRange(n, i)}

RECURSIVE Run(_, _, _)
Run(n, S, str) ==
    IF str = <<>> THEN EpsClosure(n, S)
    ELSE Run(n, Move(n, EpsClosure(n, S), Head(str)), Tail(str))

Accepts(n, str) == n # <<>> /\ (Len(n) - 1) \in Run(n, {0}, str)

(* The language a regex tree denotes, cut to the strings of at most        *)
(* MaxStr bytes.                                                           *)
Strs == Seqs({ChA, ChB}, MaxStr)

Cat(L1, L2) == {z \in {x \o y : x \in L1, y \in L2} : Len(z) <= MaxStr}

RECURSIVE Power(_, _)
Power(L, k) == IF k <= 0 THEN {<<>>} ELSE Cat(L, Power(L, k - 1))

RECURSIVE Closure(_, _)
Closure(L, acc) ==
    LET more == acc \cup Cat(acc, L) IN
    IF more = acc THEN acc ELSE Closure(L, more)

RECURSIVE Lang(_)
Lang(r) ==
    IF r.k = "Atomic" THEN {<<r.c>>}
    ELSE IF r.k = "Binary"
    THEN IF r.op = "Concat" THEN Cat(Lang(r.left), Lang(r.right))
         ELSE Lang(r.left) \cup Lang(r.right)
    ELSE IF r.op.t = "KleenClosure" THEN Closure(Lang(r.child), {<<>>})
    ELSE IF r.op.t = "Question" THEN Lang(r.child) \cup {<<>>}
    ELSE IF r.op.t = "Plus" THEN Cat(Lang(r.child), Closure(Lang(r.child), {<<>>}))
    ELSE IF r.op.t = "Times" THEN Power(Lang(r.child), r.op.a)
    ELSE UNION {Power(Lang(r.child), k) : k \in r.op.a .. r.op.b}

(* the tree's last sub-automaton is that of a KleenClosure or Plus *)
RECURSIVE EndsInClosure(_)
EndsInClosure(r) ==
    IF r.k = "Atomic" THEN FALSE
    ELSE IF r.k = "Binary" THEN r.op = "Concat" /\ EndsInClosure(r.right)
    ELSE IF r.op.t \in {"KleenClosure", "Plus"} THEN TRUE
    ELSE IF r.op.t = "Question" THEN FALSE
    ELSE EndsInClosure(r.child)

Last(n) == n[Len(n)]

IsAtom(c) == c \in {ChA, ChB}

----------------------------------------------------------------------------
(* C1 (as stated): every compiled NFA is non-empty and its last node, the  *)
(* accept node, is Epsilon with an empty target list, for every operator.  *)
C1_AcceptHasNoMoves ==
    stage = "lowered" => nfa # <<>> /\ Last(nfa) = Epsilon(<<>>)

(* C1 (amended): every compiled NFA is non-empty and its last node is an   *)
(* Epsilon; its target list is empty unless the pattern ends in a          *)
(* KleenClosure or Plus, and then it holds exactly that closure's one      *)
(* back-edge, to an earlier node.                                          *)
C1_AcceptNode ==
    stage = "lowered" =>
        /\ nfa # <<>>
        /\ Last(nfa).t = "Epsilon"
        /\ IF EndsInClosure(rast)
           THEN /\ Len(Last(nfa).eps) = 1
                /\ Last(nfa).eps[1] >= 0
                /\ Last(nfa).eps[1] < Len(nfa) - 1
           ELSE Last(nfa).eps = <<>>

C1_Witness ==
    /\ stage = "lowered"
    /\ rast.k = "Binary"
    /\ EndsInClosure(rast)
    /\ Len(Last(nfa).eps) = 1

(* C2: concatenation binds tighter than `|` on both sides: for atoms x, y, *)
(* z the pattern `xy|z` parses to the alternation of `xy` and `z`, and     *)
(* `x|yz` to the alternation of `x` and `yz`.                              *)
C2_Precedence ==
    (stage = "parsed" /\ Len(pattern) = 4
                      /\ \A i \in {1, 2, 3, 4} : IsAtom(pattern[i]) \/ pattern[i] = Bar) =>
        /\ (pattern[3] = Bar /\ IsAtom(pattern[1]) /\ IsAtom(pattern[2]) /\ IsAtom(pattern[4])) =>
              rast = Binary(Binary(Atomic(pattern[1]), Atomic(pattern[2]), "Concat"),
                            Atomic(pattern[4]), "Alternation")
        /\ (pattern[2] = Bar /\ IsAtom(pattern[1]) /\ IsAtom(pattern[3]) /\ IsAtom(pattern[4])) =>
              rast = Binary(Atomic(pattern[1]),
                            Binary(Atomic(pattern[3]), Atomic(pattern[4]), "Concat"),
                            "Alternation")

(* C3: the NFA of a validated tree accepts exactly the strings of the      *)
(* language the tree denotes.                                              *)
C3_Language ==
    stage = "lowered" => \A str \in Strs : Accepts(nfa, str) <=> str \in Lang(rast)

(* C4: each of the patterns the specification lists as rejected, and every *)
(* pattern with a non-ASCII byte, ends the compile in an Error.            *)
C4_Rejected ==
    (pattern \in RejectedPatterns \/ \E i \in 1 .. Len(pattern) : pattern[i] >= AsciiLimit) =>
        stage \notin {"validated", "lowered", "panic"}

(* C5: every index held by a transition of a compiled NFA is a position    *)
(* of that NFA.                                                            *)
C5_IndicesValid ==
    stage = "lowered" =>
        \A i \in 0 .. (Len(nfa) - 1) :
            IF Node(nfa, i).t = "Epsilon"
            THEN \A j \in 1 .. Len(Node(nfa, i).eps) : InRange(nfa, Node(nfa, i).eps[j])
            ELSE InRange(nfa, Node(nfa, i).to)

C5_Witness ==
    /\ stage = "lowered"
    /\ rast.k = "Unary"
    /\ rast.child.k = "Binary"
    /\ rast.child.right.k = "Unary"
    /\ Len(nfa) > 8

(* The class and the quantifier as the specification words them: a class *)
(* body is read up to the first `]` that is not escaped, `\x` standing for *)
(* the byte escape(x); a quantifier body is one or two decimal integers.   *)
RECURSIVE ReadClass(_, _)
ReadClass(bytes, set) ==
    IF bytes = <<>> THEN [closed |-> FALSE, set |-> set, rest |-> <<>>]
    ELSE IF Head(bytes) = RBrack
    THEN [closed |-> TRUE, set |-> set, rest |-> Tail(bytes)]
    ELSE IF Head(bytes) = BSlash
    THEN IF Len(bytes) = 1 THEN [closed |-> FALSE, set |-> set, rest |-> <<>>]
         ELSE ReadClass(Tail(Tail(bytes)), set \cup {get_escape_char(bytes[2])})
    ELSE ReadClass(Tail(bytes), set \cup {Head(bytes)})

ClassBody == IF Len(pattern) >= 2 /\ pattern[2] = Caret
             THEN SubSeq(pattern, 3, Len(pattern))
             ELSE Tail(pattern)

HasByte(str, c) == \E i \in 1 .. Len(str) : str[i] = c

ElemByte(e) == IF Len(e) = 2 THEN get_escape_char(e[2]) ELSE e[1]

EndpointElems == {<<ChA>>, <<ChC>>, <<BSlash, Digit0>>, <<BSlash, ChT>>}

IsDigits(str) ==
    str # <<>> /\ \A i \in 1 .. Len(str) : str[i] >= Digit0 /\ str[i] <= Digit9

RECURSIVE DecimalValue(_)
DecimalValue(str) ==
    IF str = <<>> THEN 0
    ELSE (10 * DecimalValue(SubSeq(str, 1, Len(str) - 1))) + (str[Len(str)] - Digit0)

(* the token a quantifier body stands for, or the token "None" *)
QuantToken(body) ==
    IF IsDigits(body) /\ DecimalValue(body) <= U8Max THEN Times(DecimalValue(body))
    ELSE IF \E i \in 1 .. Len(body) :
              /\ body[i] = Comma
              /\ IsDigits(SubSeq(body, 1, i - 1))
              /\ IsDigits(SubSeq(body, i + 1, Len(body)))
              /\ DecimalValue(SubSeq(body, 1, i - 1)) <= U8Max
              /\ DecimalValue(SubSeq(body, i + 1, Len(body))) <= U8Max
    THEN LET i == CHOOSE j \in 1 .. Len(body) : body[j] = Comma IN
         MinMax(DecimalValue(SubSeq(body, 1, i - 1)),
                DecimalValue(SubSeq(body, i + 1, Len(body))))
    ELSE Plain("None")

(* the bytes an NFA accepts as 1-byte inputs *)
AcceptedBytes(n) == {c \in 0 .. U8Max : Accepts(n, <<c>>)}

ScanFailed == stage = "error" /\ tok1 = <<>>

(* C6: scanning fails for every pattern whose `[` or `[^` class is not     *)
(* closed by `]` before the pattern ends.                                  *)
C6_UnclosedClassFails ==
    (stage # "start" /\ ~ReadClass(ClassBody, {}).closed) => ScanFailed

(* C7: inside a class an escape `\x` adds the byte escape(x) and is never  *)
(* syntax: a class of literals and escapes closed by the first `]` that is *)
(* not escaped scans to the one Set token of those bytes.                  *)
C7_EscapesAreLiteral ==
    (/\ stage # "start"
     /\ Len(pattern) >= 2 /\ pattern[2] # Caret
     /\ ~HasByte(pattern, Dash)
     /\ HasByte(pattern, BSlash)
     /\ ReadClass(ClassBody, {}).closed
     /\ ReadClass(ClassBody, {}).rest = <<>>
     /\ ReadClass(ClassBody, {}).set # {}) =>
        tok1 = <<SetTok(ReadClass(ClassBody, {}).set)>>

(* C8: a range whose endpoints are written as escapes adds exactly the     *)
(* bytes from the escaped start through the escaped end.                   *)
C8_EscapedEndpoints ==
    \A e1 \in EndpointElems, e2 \in EndpointElems :
        (/\ stage # "start"
         /\ pattern = <<LBrack>> \o e1 \o <<Dash>> \o e2 \o <<RBrack>>
         /\ Len(e1) = 2 \/ Len(e2) = 2
         /\ ElemByte(e1) <= ElemByte(e2)) =>
            tok1 = <<SetTok(ElemByte(e1) .. ElemByte(e2))>>

(* C9 (as stated): for any two bytes a <= b the pattern `[a-b]` compiles   *)
(* and its NFA accepts, of the 1-byte inputs, exactly a .. b.              *)
C9_RangeLanguage ==
    /\ stage # "error"
    /\ stage = "lowered" => AcceptedBytes(nfa) = pattern[2] .. pattern[4]

(* C9 (amended): for ASCII bytes a <= b with a none of `^`, `]`, `\`, the  *)
(* pattern `[a-b]` scans to the one token Set(a .. b), compiles, and its   *)
(* NFA accepts, of the 1-byte inputs, exactly a .. b.                      *)
C9_PlainRangeLanguage ==
    (/\ pattern[4] < AsciiLimit
     /\ pattern[2] \notin {Caret, RBrack, BSlash}) =>
        /\ stage # "error"
        /\ stage # "start" => tok1 = <<SetTok(pattern[2] .. pattern[4])>>
        /\ stage = "lowered" => AcceptedBytes(nfa) = pattern[2] .. pattern[4]

C9_Witness ==
    /\ stage = "lowered"
    /\ pattern[2] = LBrack
    /\ pattern[4] = LBrack + 2
    /\ AcceptedBytes(nfa) = {LBrack, BSlash, LBrack + 2}

(* C10: a quantifier body is one decimal integer, or two with a `,`        *)
(* between, closed by `}`; it scans to Times or MinMax, and every other    *)
(* body, one whose number has no digits included, makes the scan fail.     *)
C10_QuantBody ==
    (stage # "start") =>
        IF pattern[Len(pattern)] = RCurly
           /\ QuantToken(SubSeq(pattern, 3, Len(pattern) - 1)).t # "None"
        THEN tok1 = <<Character(ChA), QuantToken(SubSeq(pattern, 3, Len(pattern) - 1))>>
        ELSE ScanFailed

(* the digits of a literal without its leading zeros *)
RECURSIVE Significant(_)
Significant(ds) ==
    IF ds # <<>> /\ Head(ds) = Digit0 THEN Significant(Tail(ds)) ELSE ds

LiteralExceedsU8(ds) ==
    Len(Significant(ds)) > 3 \/ DecimalValue(Significant(ds)) > U8Max

(* C11: a number literal inside `{..}` whose value exceeds 255 makes scan  *)
(* return an error, for digit strings of every length.                     *)
C11_LargeNumberFails ==
    (stage # "start" /\ LiteralExceedsU8(SubSeq(pattern, 3, Len(pattern) - 1))) =>
        ScanFailed

(* The grammar of Tok2 sequences, as a generator: the sentences of at     *)
(* most MaxToks tokens, each with the tree it stands for.                  *)
(*   regex := binary;  binary := unary (('|' | Concat) binary)?;           *)
(*   unary := group postfix?;  group := Character | '(' regex ')'          *)
Sentence(ts, tree) == [ts |-> ts, tree |-> tree]

PostfixTokens ==
    {t \in TokenAlphabet : t.t \in {"KleenClosure", "Question", "Plus", "Times", "MinMax"}}

GroupsOf(R) ==
    {Sentence(<<t>>, Atomic(t.a)) : t \in {u \in TokenAlphabet : u.t = "Character"}}
      \cup {Sentence(<<Plain("LParen")>> \o r.ts \o <<Plain("RParen")>>, r.tree) :
              r \in {x \in R : Len(x.ts) + 2 <= MaxToks}}

UnariesOf(G) ==
    G \cup {Sentence(Append(g.ts, p), Unary(g.tree, p)) :
              g \in {x \in G : Len(x.ts) < MaxToks}, p \in PostfixTokens}

BinariesOf(U, R) ==
    U \cup {s \in {Sentence(u.ts \o <<Plain(b)>> \o r.ts, Binary(u.tree, r.tree, b)) :
                     u \in U, b \in BinaryOps, r \in R} : Len(s.ts) <= MaxToks}

SentencesOver(R) == BinariesOf(UnariesOf(GroupsOf(R)), R)

RECURSIVE SentencesTo(_)
SentencesTo(depth) == IF depth = 0 THEN {} ELSE SentencesOver(SentencesTo(depth - 1))

Sentences == SentencesTo(MaxToks)

ParseErrors ==
    { "Regex stoped parsing before the end", "Reached end of regex while parsing",
      "Unexpected token, expected ')'", "Unexpected token, expected char or '('" }

ParseFailed == stage = "error" /\ rast = NoRast /\ err \in ParseErrors

IsPostfix(t) == t.t \in {"KleenClosure", "Question", "Plus", "Times", "MinMax"}

(* C12 (as stated): the token sequence of `a*+` parses to                  *)
(* Unary(Unary(Atomic a, KleenClosure), Plus).                             *)
C12_StackedPostfix ==
    (stage # "simplified"
       /\ tok2 = <<Character(ChA), Plain("KleenClosure"), Plain("Plus")>>) =>
        rast = Unary(Unary(Atomic(ChA), Plain("KleenClosure")), Plain("Plus"))

(* C12 (amended): the parser takes one postfix operator per group: a       *)
(* second postfix written directly after the first is left over and the    *)
(* parse fails, while a postfix after a parenthesised unary, the group of *)
(* `a*` followed by `+`, parses to                                         *)
(* Unary(Unary(Atomic a, KleenClosure), Plus).                             *)
C12_OnePostfixPerGroup ==
    stage # "simplified" =>
        /\ (Len(tok2) = 3 /\ tok2[1].t = "Character" /\ IsPostfix(tok2[2])
                          /\ IsPostfix(tok2[3])) =>
              (ParseFailed /\ err = "Regex stoped parsing before the end")
        /\ (Len(tok2) = 5 /\ tok2[1].t = "LParen" /\ tok2[2].t = "Character"
                          /\ IsPostfix(tok2[3]) /\ tok2[4].t = "RParen"
                          /\ IsPostfix(tok2[5])) =>
              rast = Unary(Unary(Atomic(tok2[2].a), tok2[3]), tok2[5])

C12_Witness ==
    /\ stage = "parsed"
    /\ tok2 = <<Plain("LParen"), Character(ChA), Plain("KleenClosure"),
                Plain("RParen"), Plain("Plus")>>
    /\ rast = Unary(Unary(Atomic(ChA), Plain("KleenClosure")), Plain("Plus"))

(* C14: parse succeeds exactly on the token sequences that are one         *)
(* sentence of the grammar, with the right-folded tree of that sentence,   *)
(* and returns one of its four errors on every other sequence.             *)
C14_ParsesExactlySentences ==
    stage # "simplified" =>
        IF \E s \in Sentences : s.ts = tok2
        THEN \A s \in Sentences : s.ts = tok2 => rast = s.tree
        ELSE ParseFailed

C14_Witness ==
    /\ stage = "parsed"
    /\ tok2 = <<Character(ChA), Plain("Concat"), Character(ChA), Plain("Concat"),
                Character(ChA)>>
    /\ rast = Binary(Atomic(ChA), Binary(Atomic(ChA), Atomic(ChA), "Concat"), "Concat")

(* the tree holds a Times(0), a MinMax(m, M) with m >= M, or a unary        *)
(* operator directly over a unary operator                                 *)
RECURSIVE Offends(_)
Offends(r) ==
    IF r.k = "Atomic" THEN FALSE
    ELSE IF r.k = "Binary" THEN Offends(r.left) \/ Offends(r.right)
    ELSE \/ r.op.t = "Times" /\ r.op.a = 0
         \/ r.op.t = "MinMax" /\ r.op.a >= r.op.b
         \/ r.child.k = "Unary"
         \/ Offends(r.child)

ValidateErrors ==
    {"Cannot repeat zero times", "min must be less than max", "two unary in a row"}

(* C13: the validator rejects a parsed tree exactly when it holds a        *)
(* Times(0), a MinMax(m, M) with m >= M or two directly nested unary       *)
(* operators; every tree handed to the lowerer has none of them.           *)
C13_ValidatorRejects ==
    (rast # NoRast /\ stage # "parsed") =>
        /\ (stage = "error") <=> Offends(rast)
        /\ stage = "error" => err \in ValidateErrors

C13_Witness ==
    /\ stage = "error"
    /\ rast.k = "Unary"
    /\ rast.child.k = "Unary"
    /\ ~Offends(rast.child)
    /\ err = "two unary in a row"

(* The lengths k of 0 .. most for which an NFA accepts the string of k     *)
(* bytes c.  A run state holds the nodes reached after k bytes and the     *)
(* accepted lengths below k; the steps are run as two halves in order.     *)
PowerStepOn(n, st, closure, c) ==
    [S |-> Move(n, closure, c),
     k |-> st.k + 1,
     lens |-> IF (Len(n) - 1) \in closure THEN st.lens \cup {st.k} ELSE st.lens]

PowerStep(n, st, c) == PowerStepOn(n, st, EpsClosure(n, st.S), c)

RECURSIVE PowerSteps(_, _, _, _)
PowerSteps(n, st, c, count) ==
    IF count <= 0 \/ st.k < 0 THEN st
    ELSE IF count = 1 THEN PowerStep(n, st, c)
    ELSE PowerSteps(n, PowerSteps(n, st, c, count \div 2), c, count - (count \div 2))

AcceptedPowers(n, c, most) ==
    PowerSteps(n, [S |-> {0}, k |-> 0, lens |-> {}], c, most + 1).lens

(* the count n of a pattern `a{n}` *)
PatternCount == DecimalValue(SubSeq(pattern, 3, Len(pattern) - 1))

(* C15: for every n in 1 .. 255 the NFA of `a{n}` has exactly 2n           *)
(* transitions and accepts the string of n bytes `a` and no other string.  *)
C15_TimesExact ==
    PatternCount \in 1 .. U8Max =>
        /\ stage \notin {"error", "panic"}
        /\ stage = "lowered" =>
              /\ Len(nfa) = 2 * PatternCount
              /\ \A i \in 1 .. Len(nfa) : nfa[i].t = "Character" => nfa[i].c = ChA
              /\ AcceptedPowers(nfa, ChA, U8Max + 1) = {PatternCount}
              /\ \A str \in Strs :
                    Accepts(nfa, str) <=> str = [i \in 1 .. PatternCount |-> ChA]

C15_Witness ==
    /\ stage = "lowered"
    /\ PatternCount = U8Max
    /\ Len(nfa) = 2 * U8Max
    /\ AcceptedPowers(nfa, ChA, U8Max + 1) = {U8Max}

(* The NFA of Unary(X, MinMax(m, M)) written out in closed form from the   *)
(* NFA sub of X: node 0, then M copies of sub, copy j at the indices       *)
(* (j - 1) * Len(sub) + 1 .. j * Len(sub).  The node before copy j + 1     *)
(* (node 0 for j = 0, else the last node of copy j) gains an edge to the   *)
(* entry of copy j + 1 and, when copy j + 1 is optional, one to the last   *)
(* index.                                                                  *)
EdgeToNext(sub, j, max) == IF j < max THEN <<(j * Len(sub)) + 1>> ELSE <<>>

EdgeToAccept(sub, j, min, max) ==
    IF j >= min /\ j < max THEN <<max * Len(sub)>> ELSE <<>>

CopyNode(sub, j, i, min, max) ==
    IF i = Len(sub)
    THEN [Relocate(sub[i], ((j - 1) * Len(sub)) + 1) EXCEPT
            !.eps = @ \o EdgeToNext(sub, j, max) \o EdgeToAccept(sub, j, min, max)]
    ELSE Relocate(sub[i], ((j - 1) * Len(sub)) + 1)

ExpectedMinMax(sub, min, max) ==
    [p \in 1 .. (1 + (max * Len(sub))) |->
        IF p = 1
        THEN Epsilon(EdgeToNext(sub, 0, max) \o EdgeToAccept(sub, 0, min, max))
        ELSE CopyNode(sub, ((p - 2) \div Len(sub)) + 1, ((p - 2) % Len(sub)) + 1, min, max)]

IsMinMax(r) == r.k = "Unary" /\ r.op.t = "MinMax"

(* C16 (as stated): the NFA of Unary(X, MinMax(m, M)) holds m mandatory    *)
(* and M - m optional copies of X, and the entry node of each optional     *)
(* copy carries an epsilon edge to the final accept node.                  *)
C16_HookOnEntry ==
    (stage = "lowered" /\ IsMinMax(rast)) =>
        /\ Len(nfa) = 1 + (rast.op.b * Len(rast_to_nfa(rast.child)))
        /\ \A j \in (rast.op.a + 1) .. rast.op.b :
              (Len(nfa) - 1) \in
                  Targets(nfa, ((j - 1) * Len(rast_to_nfa(rast.child))) + 1)

(* C16 (amended): the NFA of Unary(X, MinMax(m, M)) is an entry Epsilon    *)
(* and M copies of X chained by epsilons; the node before each optional    *)
(* copy (the entry Epsilon when m = 0, else the last node of the copy      *)
(* before it) carries, after the edge to that copy's entry, an epsilon     *)
(* edge to the final accept node; no other edge is added.                  *)
C16_HookOnPreviousEnd ==
    (stage = "lowered" /\ IsMinMax(rast)) =>
        nfa = ExpectedMinMax(rast_to_nfa(rast.child), rast.op.a, rast.op.b)

C16_Witness ==
    /\ stage = "lowered"
    /\ IsMinMax(rast)
    /\ rast.op.a = 2
    /\ rast.op.b = 4
    /\ rast.child.k = "Binary"
    /\ Targets(nfa, 2 * Len(rast_to_nfa(rast.child))) =
          {(2 * Len(rast_to_nfa(rast.child))) + 1, Len(nfa) - 1}

(* The output of simpilfy is in tok2 from the moment the call returned Ok. *)
Simplified == tok2 # <<>>

IsConcat(t) == t.t = "Concat"
NotConcat(t) == t.t # "Concat"
DeleteConcats(tokens) == SelectSeq(tokens, NotConcat)

Juxtaposed(left, right) ==
    /\ left.t \in {"Character", "MinMax", "Times", "KleenClosure", "Question",
                   "Plus", "RParen"}
    /\ right.t \in {"Character", "LParen"}

(* C17: in the output of simpilfy a Concat stands between two tokens       *)
(* exactly when the left one is a Character, MinMax, Times, KleenClosure,  *)
(* Question, Plus or RParen and the right one a Character or LParen; and   *)
(* deleting the Concat tokens gives back the class-lowered sequence.       *)
C17_ConcatPlacement ==
    Simplified =>
        /\ NotConcat(tok2[1])
        /\ NotConcat(tok2[Len(tok2)])
        /\ \A i \in 1 .. (Len(tok2) - 1) :
              IF IsConcat(tok2[i])
              THEN /\ NotConcat(tok2[i + 1])
                   /\ Juxtaposed(tok2[i - 1], tok2[i + 1])
              ELSE NotConcat(tok2[i + 1]) => ~Juxtaposed(tok2[i], tok2[i + 1])
        /\ \E order \in 0 .. MaxOrder :
              DeleteConcats(tok2) = simplify_pass(Rev(tok1), <<>>, order).v

C17_Witness ==
    /\ tok1 = <<Character(ChA), Plain("KleenClosure"), Plain("LParen"), Character(ChA),
                Plain("RParen")>>
    /\ tok2 = <<Character(ChA), Plain("KleenClosure"), Plain("Concat"), Plain("LParen"),
                Character(ChA), Plain("RParen")>>
    /\ stage = "simplified"

IsClass(t) == t.t \in {"Set", "InverseSet", "Wildcard"}

(* the bytes a class token stands for *)
ClassMembers(t) ==
    IF t.t = "Set" THEN t.s
    ELSE IF t.t = "InverseSet" THEN (0 .. (WildLimit - 1)) \ t.s
    ELSE 0 .. (WildLimit - 1)

(* low holds, from position pos on: LParen, the members of B each once as  *)
(* Character tokens with an Alternation between neighbours, RParen.        *)
ClassForm(low, pos, B) ==
    /\ pos + (2 * Cardinality(B)) <= Len(low)
    /\ low[pos] = Plain("LParen")
    /\ low[pos + (2 * Cardinality(B))] = Plain("RParen")
    /\ \A i \in 1 .. Cardinality(B) : low[pos + (2 * i) - 1].t = "Character"
    /\ \A i \in 1 .. (Cardinality(B) - 1) : low[pos + (2 * i)] = Plain("Alternation")
    /\ {low[pos + (2 * i) - 1].a : i \in 1 .. Cardinality(B)} = B

(* low from position pos on is first with every class replaced by its form *)
RECURSIVE Lowers(_, _, _)
Lowers(first, low, pos) ==
    IF first = <<>> THEN pos = Len(low) + 1
    ELSE IF IsClass(Head(first))
    THEN /\ ClassForm(low, pos, ClassMembers(Head(first)))
         /\ Lowers(Tail(first), low, pos + (2 * Cardinality(ClassMembers(Head(first)))) + 1)
    ELSE /\ pos <= Len(low)
         /\ low[pos] = Head(first)
         /\ Lowers(Tail(first), low, pos + 1)

(* C18: simpilfy replaces each Set(S) by LParen, the k members of S each   *)
(* once as Characters separated by k - 1 Alternations, RParen; InverseSet  *)
(* (E) by the same form over 0..=126 minus E; Wildcard by the same form    *)
(* over 0..=126; every other token is copied through in order.             *)
C18_ClassLowering == Simplified => Lowers(tok1, DeleteConcats(tok2), 1)

C18_Witness ==
    /\ stage = "simplified"
    /\ tok1 = <<InverseSet({ChA, ChB, ChC})>>
    /\ Len(tok2) = (2 * (WildLimit - 3)) + 1
    /\ Character(ChA) \notin {tok2[i] : i \in 1 .. Len(tok2)}
    /\ Character(ChA + 3) \in {tok2[i] : i \in 1 .. Len(tok2)}

EmptyClass(t) ==
    \/ t.t = "Set" /\ t.s = {}
    \/ t.t = "InverseSet" /\ (0 .. (WildLimit - 1)) \subseteq t.s

(* the places where an LParen is immediately followed by an RParen *)
EmptyGroups(tokens) ==
    {i \in 1 .. (Len(tokens) - 1) :
        tokens[i].t = "LParen" /\ tokens[i + 1].t = "RParen"}

(* C19: simpilfy returns the empty-class error, and no token list, when a  *)
(* Set has no members or an InverseSet excludes every byte of 0..=126; it  *)
(* emits no LParen immediately followed by RParen other than the ones its  *)
(* input already holds.                                                    *)
C19_EmptyClassFails ==
    stage # "scanned" =>
        /\ (\E i \in 1 .. Len(tok1) : EmptyClass(tok1[i])) =>
              /\ stage = "error"
              /\ err = "Cannot have an empty set []"
              /\ tok2 = <<>>
        /\ Simplified =>
              Cardinality(EmptyGroups(tok2)) = Cardinality(EmptyGroups(tok1))

C19_Witness ==
    /\ stage = "error"
    /\ err = "Cannot have an empty set []"
    /\ tok1 = <<Character(ChA), InverseSet(0 .. (WildLimit - 1))>>
    /\ tok2 = <<>>

(* escape(x) of the scanner's contract *)
Escape(x) ==
    CASE x = Digit0 -> 0
      [] x = ChR -> CR
      [] x = ChN -> LF
      [] x = ChT -> TAB
      [] OTHER -> x

OperatorToken(b) ==
    CASE b = Bar -> Plain("Alternation")
      [] b = Star -> Plain("KleenClosure")
      [] b = QMark -> Plain("Question")
      [] b = PlusCh -> Plain("Plus")
      [] b = LPar -> Plain("LParen")
      [] b = RPar -> Plain("RParen")
      [] b = Dot -> Plain("Wildcard")
      [] OTHER -> Character(b)

(* bytes is a sequence of elements outside classes and quantifiers: escape *)
(* pairs and single bytes other than `[`, `{` and `\`.                     *)
RECURSIVE IsPlain(_)
IsPlain(bytes) ==
    IF bytes = <<>> THEN TRUE
    ELSE IF Head(bytes) = BSlash
    THEN Len(bytes) >= 2 /\ IsPlain(SubSeq(bytes, 3, Len(bytes)))
    ELSE Head(bytes) \notin {LBrack, LCurly} /\ IsPlain(Tail(bytes))

(* one token per element, in order *)
RECURSIVE ElementTokens(_)
ElementTokens(bytes) ==
    IF bytes = <<>> THEN <<>>
    ELSE IF Head(bytes) = BSlash
    THEN <<Character(Escape(bytes[2]))>> \o ElementTokens(SubSeq(bytes, 3, Len(bytes)))
    ELSE <<OperatorToken(Head(bytes))>> \o ElementTokens(Tail(bytes))

(* C20: outside classes and quantifiers the scanner emits one token per    *)
(* input element, in input order: an escape pair gives Character(escape    *)
(* (x)), an operator byte its operator token, every other byte b gives     *)
(* Character(b).                                                           *)
C20_OneTokenPerElement ==
    (stage # "start" /\ pattern # <<>> /\ is_ascii(pattern) /\ IsPlain(pattern)) =>
        tok1 = ElementTokens(pattern)

C20_Witness ==
    /\ pattern = TestBasic
    /\ tok1 = <<Character(Bar), Plain("Alternation"), Plain("KleenClosure"),
                Plain("Question"), Plain("Plus"), Plain("LParen"), Plain("RParen"),
                Plain("Wildcard"), Character(ChA)>>

(* the number of `\` bytes that end str *)
RECURSIVE TrailingBackslashes(_)
TrailingBackslashes(str) ==
    IF str = <<>> \/ str[Len(str)] # BSlash THEN 0
    ELSE 1 + TrailingBackslashes(SubSeq(str, 1, Len(str) - 1))

(* str ends immediately after a `\` that no `\` before it escapes *)
EndsAfterBackslash(str) == TrailingBackslashes(str) % 2 = 1

(* str ends inside a quantifier: a `{` at top level, not escaped, with no  *)
(* `}` after it                                                            *)
EndsInsideQuantifier(str) ==
    \E i \in 1 .. Len(str) :
        /\ str[i] = LCurly
        /\ \A j \in 1 .. (i - 1) : str[j] # LBrack
        /\ TrailingBackslashes(SubSeq(str, 1, i - 1)) % 2 = 0
        /\ \A j \in (i + 1) .. Len(str) : str[j] # RCurly

(* C21: scan returns an error, and no token list, when the pattern is      *)
(* empty, holds a byte outside ASCII, ends immediately after a `\` (at top *)
(* level or inside a class), or ends inside a quantifier with no `}`.      *)
C21_BrokenPatternFails ==
    ( /\ stage # "start"
      /\ \/ pattern = <<>>
         \/ ~is_ascii(pattern)
         \/ EndsAfterBackslash(pattern)
         \/ EndsInsideQuantifier(pattern) ) => ScanFailed

ClassStrs == Seqs({ChA, ChB, ChC}, MaxStr)

SameLanguage(n1, n2) ==
    /\ AcceptedBytes(n1) = AcceptedBytes(n2)
    /\ \A str \in ClassStrs : Accepts(n1, str) <=> Accepts(n2, str)

HasClass(str) == \E i \in 1 .. Len(str) : str[i] = LBrack

C24_CharacterMovesOn ==
    stage = "lowered" =>
        \A i \in 0 .. (Len(nfa) - 1) :
            Node(nfa, i).t = "Character" =>
                /\ Node(nfa, i).to # i
                /\ Node(nfa, i).to = i + 1

C24_Witness ==
    /\ stage = "lowered"
    /\ rast.k = "Binary"
    /\ rast.op = "Alternation"
    /\ rast.left.k = "Atomic"
    /\ Node(nfa, 1) = CharacterT(rast.left.c, 2)

IsJoin(t) == t.t \in {"Concat", "Alternation"}

JoinsOf(tokens) == {i \in 1 .. Len(tokens) : IsJoin(tokens[i])}

Least(S) == CHOOSE i \in S : \A j \in S : i <= j
Greatest(S) == CHOOSE i \in S : \A j \in S : i >= j

(* the tree of one operand: a Character, with or without a postfix *)
OperandTree(tokens) ==
    IF Len(tokens) = 1 THEN Atomic(tokens[1].a)
    ELSE Unary(Atomic(tokens[1].a), tokens[2])

(* the operands of tokens folded from the left and from the right *)
RECURSIVE LeftFold(_)
LeftFold(tokens) ==
    IF JoinsOf(tokens) = {} THEN OperandTree(tokens)
    ELSE Binary(LeftFold(SubSeq(tokens, 1, Greatest(JoinsOf(tokens)) - 1)),
                OperandTree(SubSeq(tokens, Greatest(JoinsOf(tokens)) + 1, Len(tokens))),
                tokens[Greatest(JoinsOf(tokens))].t)

RECURSIVE RightFold(_)
RightFold(tokens) ==
    IF JoinsOf(tokens) = {} THEN OperandTree(tokens)
    ELSE Binary(OperandTree(SubSeq(tokens, 1, Least(JoinsOf(tokens)) - 1)),
                RightFold(SubSeq(tokens, Least(JoinsOf(tokens)) + 1, Len(tokens))),
                tokens[Least(JoinsOf(tokens))].t)

Parsed == rast # NoRast

(* C25 (as stated): for operands joined by any mix of Alternation and      *)
(* Concat tokens, the right-folded tree parse builds denotes the language  *)
(* of the left-folded tree of the same sequence.                           *)
C25_FoldsAgree ==
    Parsed => rast = RightFold(tok2) /\ Lang(rast) = Lang(LeftFold(tok2))

(* C25 (amended): for operands joined by Alternation tokens only, or by    *)
(* Concat tokens only, the right-folded tree parse builds denotes the      *)
(* language of the left-folded tree of the same sequence.                  *)
C25_UniformFoldsAgree ==
    (Parsed /\ Cardinality({tok2[i].t : i \in JoinsOf(tok2)}) <= 1) =>
        rast = RightFold(tok2) /\ Lang(rast) = Lang(LeftFold(tok2))

C25_Witness ==
    /\ Parsed
    /\ Cardinality(JoinsOf(tok2)) = MaxOperands - 1
    /\ {tok2[i].t : i \in JoinsOf(tok2)} = {"Alternation"}
    /\ rast # LeftFold(tok2)
    /\ Lang(rast) = Lang(LeftFold(tok2))

(* C26: lowering a validated RAST never panics: every add_epsilon call     *)
(* lands on an Epsilon node, and it appends its target to the end of that  *)
(* node's list.  For a KleenClosure or Question over X, whose NFA sub sits *)
(* at the indices 1 .. Len(sub), node 0 holds the entry of X and then the  *)
(* end, and the last node of X holds what it held in sub and then the end. *)
C26_LoweringNeverFails ==
    stage \in {"lowered", "panic"} =>
        /\ stage = "lowered"
        /\ ~Panicked(nfa)
        /\ \A i \in 1 .. Len(nfa) : nfa[i].t \in {"Epsilon", "Character"}
        /\ (rast.k = "Unary" /\ rast.op.t \in {"KleenClosure", "Question"}) =>
              /\ Node(nfa, 0) = Epsilon(<<1, Len(nfa) - 1>>)
              /\ Node(nfa, Len(nfa) - 2) =
                    Epsilon(Relocate(Last(rast_to_nfa(rast.child)), 1).eps
                            \o <<Len(nfa) - 1>>)

C26_Witness ==
    /\ stage = "lowered"
    /\ rast.k = "Unary"
    /\ rast.op.t = "KleenClosure"
    /\ EndsInClosure(rast.child)
    /\ Len(Node(nfa, Len(nfa) - 2).eps) = 2

(* the digits of the last number in the body of `a{n}` or `a{m,n}` *)
RECURSIVE LastDigits(_)
LastDigits(str) ==
    IF str = <<>> \/ ~IsDigit(str[Len(str)]) THEN <<>>
    ELSE Append(LastDigits(SubSeq(str, 1, Len(str) - 1)), str[Len(str)])

ClosedQuantifier(str) ==
    /\ Len(str) >= 4
    /\ str[1] = ChA
    /\ str[2] = LCurly
    /\ str[Len(str)] = RCurly
    /\ IsDigit(str[3])

(* C27: scan_regex returns Ok or Err without panicking on every string of  *)
(* fewer than MonkeyLimit printable bytes, quantifier bodies with numbers  *)
(* of one, two or three digits included, and reports a number above 255 as *)
(* an error.                                                               *)
C27_LegacyScanReturns ==
    (stage # "start" /\ Len(pattern) < MonkeyLimit) =>
        /\ stage # "panic"
        /\ (/\ ClosedQuantifier(pattern)
            /\ DecimalValue(LastDigits(SubSeq(pattern, 1, Len(pattern) - 1))) > U8Max)
              => stage = "error"

(* C28: a call of message() on an Error built by new, new_line or new_hl   *)
(* ends, and it returns the message the Error was built with, the text     *)
(* Display prints.                                                         *)
C28_MessageReturns ==
    /\ call.state # "aborted"
    /\ call.frames <= 1
    /\ call.state = "returned" => call.returned = <<call.message>>
    /\ (call.state = "returned" /\ call.shown # <<>>) => call.shown = call.returned

(* the number of nodes the lowering of a tree has *)
RECURSIVE Size(_)
Copies(op) ==
    IF op.t = "Times" THEN (IF op.a > 1 THEN op.a ELSE 1)
    ELSE IF op.b > op.a THEN op.b ELSE op.a

Size(r) ==
    IF r.k = "Atomic" THEN 2
    ELSE IF r.k = "Binary"
    THEN Size(r.left) + Size(r.right) + (IF r.op = "Alternation" THEN 2 ELSE 0)
    ELSE IF r.op.t \in {"KleenClosure", "Question"} THEN Size(r.child) + 2
    ELSE IF r.op.t = "Plus" THEN 2 * Size(r.child) + 2
    ELSE IF r.op.t = "Times" THEN Copies(r.op) * Size(r.child)
    ELSE 1 + Copies(r.op) * Size(r.child)

(* the pairs <<end, start>> of the KleenClosure and Plus constructions of  *)
(* a tree whose lowering begins at index base                              *)
RECURSIVE ClosureEdges(_, _)
ClosureEdges(r, base) ==
    IF r.k = "Atomic" THEN {}
    ELSE IF r.k = "Binary"
    THEN IF r.op = "Concat"
         THEN ClosureEdges(r.left, base)
                \cup ClosureEdges(r.right, base + Size(r.left))
         ELSE ClosureEdges(r.left, base + 1)
                \cup ClosureEdges(r.right, base + 1 + Size(r.left))
    ELSE IF r.op.t = "KleenClosure"
    THEN ClosureEdges(r.child, base + 1)
           \cup {<<base + Size(r.child) + 1, base>>}
    ELSE IF r.op.t = "Question" THEN ClosureEdges(r.child, base + 1)
    ELSE IF r.op.t = "Plus"
    THEN ClosureEdges(r.child, base)
           \cup ClosureEdges(r.child, base + Size(r.child) + 1)
           \cup {<<base + 2 * Size(r.child) + 1, base + Size(r.child)>>}
    ELSE IF r.op.t = "Times"
    THEN UNION {ClosureEdges(r.child, base + k * Size(r.child)) :
                  k \in 0 .. (Copies(r.op) - 1)}
    ELSE UNION {ClosureEdges(r.child, base + 1 + k * Size(r.child)) :
                  k \in 0 .. (Copies(r.op) - 1)}

RECURSIVE HasClosure(_)
HasClosure(r) ==
    IF r.k = "Atomic" THEN FALSE
    ELSE IF r.k = "Binary" THEN HasClosure(r.left) \/ HasClosure(r.right)
    ELSE r.op.t \in {"KleenClosure", "Plus"} \/ HasClosure(r.child)

(* the transitions of an NFA as pairs <<from, to>> *)
EpsilonEdges(n) ==
    UNION {{<<i, t>> : t \in Targets(n, i)} : i \in 0 .. (Len(n) - 1)}

CharacterEdges(n) ==
    {<<i, Node(n, i).to>> :
       i \in {k \in 0 .. (Len(n) - 1) : Node(n, k).t = "Character"}}

Edges(n) == EpsilonEdges(n) \cup CharacterEdges(n)

BackEdges(n) == {e \in Edges(n) : e[2] <= e[1]}

(* the nodes reached from the set S over one or more edges of E, in at     *)
(* most steps rounds                                                       *)
Successors(E, S) == {e[2] : e \in {x \in E : x[1] \in S}}

RECURSIVE ReachedFrom(_, _, _)
ReachedFrom(E, S, steps) ==
    IF steps = 0 \/ Successors(E, S) \subseteq S THEN S
    ELSE ReachedFrom(E, S \cup Successors(E, S), steps - 1)

HasEpsilonCycle(n) ==
    \E i \in 0 .. (Len(n) - 1) :
        i \in ReachedFrom(EpsilonEdges(n), Successors(EpsilonEdges(n), {i}), Len(n))

(* C29: in the NFA of a tree the transitions whose target is not strictly  *)
(* greater than their own index are exactly the first targets of the end   *)
(* nodes of the KleenClosure and Plus constructions, each pointing at the  *)
(* start node of its construction; a tree without KleenClosure and Plus    *)
(* lowers to an NFA with forward edges only and no epsilon cycle.          *)
C29_BackEdgesAreClosures ==
    stage = "lowered" =>
        /\ Len(nfa) = Size(rast)
        /\ BackEdges(nfa) = ClosureEdges(rast, 0)
        /\ \A e \in BackEdges(nfa) :
              /\ Node(nfa, e[1]).t = "Epsilon"
              /\ Node(nfa, e[1]).eps[1] = e[2]
              /\ e[2] < e[1]
        /\ ~HasClosure(rast) =>
              /\ BackEdges(nfa) = {}
              /\ ~HasEpsilonCycle(nfa)

C29_Witness ==
    /\ stage = "lowered"
    /\ rast.k = "Unary"
    /\ rast.op.t = "Times"
    /\ rast.op.a = 2
    /\ rast.child.k = "Binary"
    /\ rast.child.right.k = "Unary"
    /\ rast.child.right.op.t = "Plus"
    /\ Cardinality(BackEdges(nfa)) = 2

C29_ForwardWitness ==
    /\ stage = "lowered"
    /\ ~HasClosure(rast)
    /\ rast.k = "Unary"
    /\ rast.op.t = "MinMax"
    /\ rast.child.k = "Binary"
    /\ Len(nfa) > 8

(* the byte stacks scan_token is called with, one after the other, by the  *)
(* `while let` loop of scan                                                *)
RECURSIVE ScanStacks(_)
ScanStacksAfter(regex, t) ==
    IF t.ok /\ t.some THEN <<regex>> \o ScanStacks(t.rest) ELSE <<regex>>

ScanStacks(regex) == ScanStacksAfter(regex, scan_token(regex))

(* the stacks at the top of the iterations of get_set's loop *)
RECURSIVE SetStacks(_, _)
SetStacksAfter(regex, t) ==
    IF t.done THEN <<regex>> ELSE <<regex>> \o SetStacks(t.regex, t.set)

SetStacks(regex, set) ==
    IF regex = <<>> THEN <<regex>>
    ELSE SetStacksAfter(regex, get_set_turn(regex, set))

(* scan_token calls get_set on this stack: it starts with `[` and a byte *)
EntersSet(regex) == Len(regex) >= 2 /\ Top(regex) = LBrack

SetEntry(regex) ==
    IF Top(Pop(regex)) = Caret THEN Pop(Pop(regex)) ELSE Pop(regex)

Shrinks(stacks) ==
    \A i \in 1 .. (Len(stacks) - 1) : Len(stacks[i + 1]) < Len(stacks[i])

LoopRuns(st) == st[2] + 1 < Len(st[1])

(* The Concat loop watched turn by turn: st is its state <<tokens, index>>, *)
(* inserted tells whether the turn before grew the vector, ok whether      *)
(* every turn so far moved index up by one, grew the vector by at most one *)
(* token and did not grow it right after a turn that did.                  *)
WatchedTurn(w, next) ==
    [st |-> next,
     inserted |-> Len(next[1]) > Len(w.st[1]),
     ok |-> /\ w.ok
            /\ LoopRuns(w.st) =>
                  /\ next[2] = w.st[2] + 1
                  /\ Len(next[1]) <= Len(w.st[1]) + 1
                  /\ ~(w.inserted /\ Len(next[1]) > Len(w.st[1]))]

RECURSIVE WatchedTurns(_, _)
WatchedTurns(w, count) ==
    IF ~w.ok \/ count <= 0 THEN w
    ELSE IF count = 1 THEN WatchedTurn(w, concat_step(w.st))
    ELSE WatchedTurns(WatchedTurns(w, count \div 2), count - (count \div 2))

Watched(tokens) ==
    WatchedTurns([st |-> <<tokens, 0>>, inserted |-> FALSE, ok |-> TRUE],
                 2 * Len(tokens))

ConcatLoopEnds(tokens) ==
    /\ Watched(tokens).ok
    /\ ~LoopRuns(Watched(tokens).st)
    /\ Watched(tokens).st[1] = concat_pass(tokens)

FirstPass(order) == simplify_pass(Rev(tok1), <<>>, order)

(* C30: every iteration of scan's loop and of get_set's loop leaves the    *)
(* byte stack strictly shorter than it found it, so scan ends; the Concat  *)
(* loop of simpilfy moves its index up by one each turn, inserts at most   *)
(* one token per turn and never in two turns in a row, and its condition   *)
(* is false within twice the length of the token vector.                   *)
C30_LoopsEnd ==
    /\ (stage \in {"scanned", "error", "panic"} /\ tok2 = <<>>
          /\ pattern # <<>> /\ is_ascii(pattern)) =>
          /\ Shrinks(ScanStacks(Rev(pattern)))
          /\ \A i \in 1 .. Len(ScanStacks(Rev(pattern))) :
                EntersSet(ScanStacks(Rev(pattern))[i]) =>
                    Shrinks(SetStacks(SetEntry(ScanStacks(Rev(pattern))[i]), {}))
    /\ (stage = "simplified" /\ tok1 # <<>>) =>
          \A order \in 0 .. MaxOrder :
              FirstPass(order).ok => ConcatLoopEnds(FirstPass(order).v)

C30_Witness ==
    /\ stage = "simplified"
    /\ pattern = <<ChA, LBrack, Caret, BSlash, Digit0, Dash, LCurly, RBrack, ChC>>
    /\ Len(ScanStacks(Rev(pattern))) = 4
    /\ Len(SetStacks(SetEntry(ScanStacks(Rev(pattern))[2]), {})) = 3
    /\ Cardinality({i \in 1 .. Len(tok2) : tok2[i].t = "Concat"}) = 2

====
